---------------------------- MODULE Spec2Model ----------------------------
(***************************************************************************)
(* A model of the Notion -> Google Drive migration tool                    *)
(* (notion_to_gdrive_migrator.py) and of its companion cleanup script      *)
(* (trash_migrated_pages.py).                                              *)
(*                                                                         *)
(* Text is modelled as a sequence of tokens.  A token is either a single   *)
(* non-alphanumeric character (" ", ":", ">", "/", ...) or a run of        *)
(* alphanumeric characters that the program never splits ("Projects").     *)
(* Page ids are spelled out character by character, because the cleanup    *)
(* script slices them.                                                     *)
(***************************************************************************)
EXTENDS Integers, Sequences, FiniteSets, TLC

VARIABLES
    pc,                     \* where the two processes are
    source,                 \* the pages the document store holds, as it lists them
    first_run,              \* what an earlier run of the migrator returned, if any
    gdrive_folder_id,       \* GOOGLE_DRIVE_FOLDER_ID, or None
    pages,                  \* the list get_notion_pages returned
    idx,                    \* index of the next page of the for loop
    stats,                  \* migrate_single_attachment_pages.stats
    migrated_pages,         \* self.migrated_pages
    database_folder_cache,  \* self.database_folder_cache
    uploaded_files,         \* self.uploaded_files
    drive,                  \* the blob store: folders, files, next id
    log,                    \* lines of migration_<ts>.log that carry a title
    calls,                  \* external calls issued for the page last processed
    cur,                    \* what the loop body computed for that page
    dry_run,                \* --dry-run
    trasher,                \* NotionPageTrasher: records, position, stats
    archived,               \* pages.update(archived=True) requests, in order
    fnIn,                   \* input of the pure function under check
    fnOut                   \* its result

vars == << pc, source, first_run, gdrive_folder_id, pages, idx, stats, migrated_pages,
           database_folder_cache, uploaded_files, drive, log, calls, cur,
           dry_run, trasher, archived, fnIn, fnOut >>

migratorVars == << source, first_run, gdrive_folder_id, pages, idx, stats, migrated_pages,
                   database_folder_cache, uploaded_files, drive, log, calls, cur >>

trasherVars == << dry_run, trasher, archived >>

-----------------------------------------------------------------------------
(* Bounds of the model.                                                    *)

\* longest block list handed to the classifier
MaxBlocks == 3
\* most store nodes whose retrieval fails during one hierarchy resolution
MaxDown == 1
\* most pages one listing returns
MaxItems == 2
\* most kinds of external call that fail while one page is processed
MaxFaults == 1
\* depth at which the interpreter refuses a further nested call
MaxRecursion == 6
\* calls of create_hierarchical_folders in one run, in SpecFolders
MaxCalls == 2
MaxLines == 2

-----------------------------------------------------------------------------
(* Text.                                                                   *)

None == -1
NoneStr == << "<None>" >>

Punct == { " ", "-", "_", ".", ":", ">", "|", "/", "?", "=", "(", ")", "'", "<" }

\* str.isalnum() of one token
IsAlnum(c) == c \notin Punct

\* str.strip(): leading and trailing blanks removed
RECURSIVE LStrip(_)
LStrip(s) == IF s # << >> /\ Head(s) = " " THEN LStrip(Tail(s)) ELSE s

RECURSIVE RStrip(_)
RStrip(s) ==
    IF s # << >> /\ s[Len(s)] = " " THEN RStrip(SubSeq(s, 1, Len(s) - 1)) ELSE s

Strip(s) == LStrip(RStrip(s))

RECURSIVE Join(_)
Join(ss) == IF ss = << >> THEN << >> ELSE Head(ss) \o Join(Tail(ss))

\* truthiness of an Optional[str]
Truthy(s) == s # NoneStr /\ s # << >>

HexDigits == << "0", "1", "2", "3", "4", "5", "6", "7",
                "8", "9", "a", "b", "c", "d", "e", "f" >>

HexChars == { HexDigits[i] : i \in 1..16 }

\* A canonical dashed page id (8-4-4-4-12), distinct for distinct k in 0..7.
PageId(k) ==
    [ i \in 1..36 |->
        IF i \in {9, 14, 19, 24} THEN "-"
        ELSE HexDigits[((i * (2 * k + 1)) % 16) + 1] ]

-----------------------------------------------------------------------------
(* Content blocks and the classifier.                                      *)

TextTypes == { "paragraph", "heading_1", "heading_2", "heading_3" }
AttachmentTypes == { "image", "pdf", "file" }
StructuralTypes == { "divider", "unsupported" }
NoType == "<none>"

\* payload of a block, block[block_type]:
\*   "text"   a dict whose rich_text is a non-empty list
\*   "empty"  a dict whose rich_text is empty or missing
\*   "absent" the key block_type is missing from the block
\*   "null"   the key is present and holds null
\*   "att"    the attachment data of an image, pdf or file block
NoAtt == [ src |-> "none", url |-> << >>, caption |-> << >> ]

\* a block less its id
Kind(type, payload, att) == [ type |-> type, payload |-> payload, att |-> att ]

MkBlock(i, kind) ==
    [ id |-> i, type |-> kind.type, payload |-> kind.payload, att |-> kind.att ]

\* block.get(block_type, {}).get('rich_text') raises AttributeError on null
BlockRaises(block) == block.type \in TextTypes /\ block.payload = "null"

\* whether the loop body appends the block to content_blocks
BlockCounts(block) ==
    IF block.type \in TextTypes THEN block.payload = "text"
    ELSE IF block.type \in AttachmentTypes THEN TRUE
    ELSE block.type \notin StructuralTypes

NoBlock == [ id |-> 0, type |-> NoType, payload |-> "absent", att |-> NoAtt ]

\* the value of attachment_block after the loop: the last attachment block
RECURSIVE LastAttachment(_)
LastAttachment(blocks) ==
    IF blocks = << >> THEN NoBlock
    ELSE IF blocks[Len(blocks)].type \in AttachmentTypes THEN blocks[Len(blocks)]
    ELSE LastAttachment(SubSeq(blocks, 1, Len(blocks) - 1))

is_single_attachment_page_AnyCount(blocks) ==
    IF \E i \in 1..Len(blocks) : BlockRaises(blocks[i])
    THEN [ raised |-> TRUE, is_single |-> FALSE, attachment_block |-> NoBlock,
           content_blocks |-> << >> ]
    ELSE LET content_blocks == SelectSeq(blocks, BlockCounts)
             attachment_block == LastAttachment(blocks)
         IN  [ raised |-> FALSE,
               is_single |-> /\ Len(content_blocks) >= 1
                             /\ attachment_block # NoBlock
                             /\ attachment_block.type \in AttachmentTypes,
               attachment_block |-> attachment_block,
               content_blocks |-> content_blocks ]

is_single_attachment_page(blocks) ==
    IF \E i \in 1..Len(blocks) : BlockRaises(blocks[i])
    THEN [ raised |-> TRUE, is_single |-> FALSE, attachment_block |-> NoBlock,
           content_blocks |-> << >> ]
    ELSE LET content_blocks == SelectSeq(blocks, BlockCounts)
             attachment_block == LastAttachment(blocks)
         IN  [ raised |-> FALSE,
               is_single |-> /\ Len(content_blocks) = 1
                             /\ attachment_block # NoBlock
                             /\ attachment_block.type \in AttachmentTypes,
               attachment_block |-> attachment_block,
               content_blocks |-> content_blocks ]

-----------------------------------------------------------------------------
(* The document store: databases, pages and blocks with their parents.     *)
(* Candidate items hang below these nodes; see Items.                      *)

Databases == { "D1", "D2" }
AncestorPages == { "A", "B", "C", "E", "R", "S", "Z" }
AncestorBlocks == { "K1", "K2", "K3" }
StoreNodes == Databases \cup AncestorPages \cup AncestorBlocks

DbRef(d) == [ type |-> "database_id", id |-> d ]
PageRef(p) == [ type |-> "page_id", id |-> p ]
BlockRef(b) == [ type |-> "block_id", id |-> b ]
WorkspaceRef == [ type |-> "workspace", id |-> "" ]
NoParent == [ type |-> NoType, id |-> "" ]

\* node['parent']
ParentOf(n) ==
    CASE n = "A"  -> DbRef("D1")
      [] n = "B"  -> PageRef("A")
      [] n = "E"  -> PageRef("A")
      [] n = "C"  -> BlockRef("K2")
      [] n = "R"  -> WorkspaceRef
      [] n = "S"  -> DbRef("D2")
      [] n = "Z"  -> PageRef("Z")
      [] n = "K1" -> DbRef("D1")
      [] n = "K2" -> PageRef("B")
      [] n = "K3" -> BlockRef("K2")
      [] OTHER    -> NoParent

\* the plain_text of the node's title array, joined; << >> for an empty array
TitleArray(n) ==
    CASE n = "D1" -> << "Projects" >>
      [] n = "A"  -> << "2024" >>
      [] n = "B"  -> << "Q1" >>
      [] n = "E"  -> << "2024" >>
      [] n = "C"  -> << "Tasks" >>
      [] n = "R"  -> << "Home" >>
      [] n = "Z"  -> << "Loop" >>
      [] OTHER    -> << >>

Call(op, arg, ok) == [ op |-> op, arg |-> arg, ok |-> ok ]

get_database_name_NoPlaceholder(database_id, down) ==
    IF database_id \in down
    THEN << >>
    ELSE IF TitleArray(database_id) # << >> THEN TitleArray(database_id)
         ELSE << "Untitled", " ", "Database", " ", "(", database_id, ")" >>

\* `down` is the set of store nodes whose retrieval raises
get_database_name(database_id, down) ==
    IF database_id \in down
    THEN << "Unknown", " ", "Database", " ", "(", database_id, ")" >>
    ELSE IF TitleArray(database_id) # << >> THEN TitleArray(database_id)
         ELSE << "Untitled", " ", "Database", " ", "(", database_id, ")" >>

\* get_page_title, from the page's title array (joined) and its id
get_page_title(title_array, id) ==
    IF title_array # << >> THEN title_array
    ELSE << "Untitled", " ", "Page", " ", "(" >> \o id \o << ")" >>

EmptyHierarchy ==
    [ database_id |-> "", database_name |-> NoneStr,
      parent_pages |-> << >>, full_path |-> << >>, calls |-> << >> ]

\* the three places that set database_id, database_name and full_path
AtDatabase(h, database_id, down) ==
    IF database_id = "" THEN [ h EXCEPT !.database_id = "" ]
    ELSE LET name == get_database_name(database_id, down)
         IN  [ h EXCEPT !.database_id = database_id,
                        !.database_name = name,
                        !.full_path = << name >> \o h.parent_pages,
                        !.calls = @ \o << Call("databases.retrieve", database_id,
                                               database_id \notin down) >> ]

Refresh_Always(h) ==
    [ h EXCEPT !.full_path =
        (IF Truthy(h.database_name) THEN << h.database_name >> ELSE << >>)
        \o h.parent_pages ]

\* "Update full_path after recursion"
Refresh(h) ==
    IF Truthy(h.database_name)
    THEN [ h EXCEPT !.full_path = << h.database_name >> \o h.parent_pages ]
    ELSE h

\* hierarchy['parent_pages'].insert(0, parent_title)
InsertParent_Append(h, title) == [ h EXCEPT !.parent_pages = @ \o << title >> ]

InsertParent(h, title) == [ h EXCEPT !.parent_pages = << title >> \o @ ]

\* _build_page_hierarchy(page, hierarchy), where page['parent'] = parent;
\* depth is the number of nested calls the interpreter still allows.
RECURSIVE _build_page_hierarchy(_, _, _, _)
_build_page_hierarchy(parent, h, down, depth) ==
    IF depth = 0 THEN h   \* RecursionError, caught by the caller's except
    ELSE
    CASE parent.type = "page_id" ->
            IF parent.id = "" THEN h
            ELSE LET h1 == [ h EXCEPT !.calls = @ \o
                               << Call("pages.retrieve", parent.id, parent.id \notin down) >> ]
                 IN  IF parent.id \in down THEN h1
                     ELSE Refresh(_build_page_hierarchy(ParentOf(parent.id),
                                     InsertParent(h1, get_page_title(TitleArray(parent.id), << parent.id >>)),
                                     down, depth - 1))
      [] parent.type = "block_id" ->
            IF parent.id = "" THEN h
            ELSE LET h1 == [ h EXCEPT !.calls = @ \o
                               << Call("blocks.retrieve", parent.id, parent.id \notin down) >> ]
                     block_parent == ParentOf(parent.id)
                 IN  IF parent.id \in down THEN h1
                     ELSE CASE block_parent.type = "page_id" ->
                                 IF block_parent.id = "" THEN h1
                                 ELSE LET h2 == [ h1 EXCEPT !.calls = @ \o
                                                   << Call("pages.retrieve", block_parent.id,
                                                           block_parent.id \notin down) >> ]
                                      IN  IF block_parent.id \in down THEN h2
                                          ELSE Refresh(_build_page_hierarchy(
                                                  ParentOf(block_parent.id),
                                                  InsertParent(h2, get_page_title(TitleArray(block_parent.id),
                                                                            << block_parent.id >>)),
                                                  down, depth - 1))
                            [] block_parent.type = "database_id" ->
                                 AtDatabase(h1, block_parent.id, down)
                            [] block_parent.type = "block_id" ->
                                 Refresh(_build_page_hierarchy(block_parent, h1, down, depth - 1))
                            [] OTHER -> h1
      [] parent.type = "database_id" -> AtDatabase(h, parent.id, down)
      [] OTHER -> h

get_page_hierarchy_OnlyPages(parent, down) ==
    CASE parent.type = "page_id" ->
            _build_page_hierarchy(parent, EmptyHierarchy, down, MaxRecursion)
      [] OTHER -> EmptyHierarchy

\* get_page_hierarchy(page), where page['parent'] = parent
get_page_hierarchy(parent, down) ==
    CASE parent.type = "database_id" -> AtDatabase(EmptyHierarchy, parent.id, down)
      [] parent.type = "page_id" ->
            _build_page_hierarchy(parent, EmptyHierarchy, down, MaxRecursion)
      [] OTHER -> EmptyHierarchy

-----------------------------------------------------------------------------
(* File names.                                                             *)

\* "".join(c for c in s if c.isalnum() or c in allowed).strip()
Sanitize(s, allowed) ==
    Strip(SelectSeq(s, LAMBDA c : IsAlnum(c) \/ c \in allowed))

TitleChars == { " ", "-", "_" }
NameChars == { " ", "-", "_", "." }

\* positions of token c in s
Positions(s, c) == { i \in 1..Len(s) : s[i] = c }

Max(S) == CHOOSE x \in S : \A y \in S : y <= x
Min(S) == CHOOSE x \in S : \A y \in S : x <= y

\* s.split('?')[0]
BeforeQuery(s) ==
    IF Positions(s, "?") = { } THEN s ELSE SubSeq(s, 1, Min(Positions(s, "?")) - 1)

\* os.path.basename
Basename(s) ==
    IF Positions(s, "/") = { } THEN s ELSE SubSeq(s, Max(Positions(s, "/")) + 1, Len(s))

\* pathlib.Path(name).suffix: from the last dot on, unless the dot leads or ends
Suffix(name) ==
    LET n == Basename(name)
        dots == Positions(n, ".")
    IN  IF dots = { } \/ Max(dots) = 1 \/ Max(dots) = Len(n) THEN << >>
        ELSE SubSeq(n, Max(dots), Len(n))

DefaultExtension(block_type) ==
    CASE block_type = "image" -> << ".", "png" >>
      [] block_type = "pdf"   -> << ".", "pdf" >>
      [] OTHER                -> << >>

Placeholder(block) == << "attachment", "_", ToString(block.id) >>

\* the name derived with the page title left unused
attachment_filename_NoTitle(block, page_title) ==
    LET data == block.att
        caption == data.caption
        derived ==
            IF caption # << >> /\ Strip(caption) # << >> THEN caption
            ELSE LET base == Basename(BeforeQuery(data.url))
                 IN  IF base # << >> /\ Strip(base) # << >> THEN base
                     ELSE Placeholder(block)
        extended ==
            IF Suffix(derived) = << >> THEN derived \o DefaultExtension(block.type)
            ELSE derived
        final == Sanitize(extended, NameChars)
    IN  [ ok |-> data.src \in { "external", "file" } /\ data.url # << >>,
          filename |-> IF final = << >> THEN Placeholder(block) ELSE final ]

\* download_attachment up to the HTTP request: the file name and the URL, or
\* ok = FALSE when the attachment data is of no supported type or has no URL.
attachment_filename(block, page_title) ==
    LET data == block.att
        supported == data.src \in { "external", "file" }
        caption == data.caption
        derived ==
            IF caption # << >> /\ Strip(caption) # << >> THEN caption
            ELSE LET base == Basename(BeforeQuery(data.url))
                 IN  IF base # << >> /\ Strip(base) # << >> THEN base
                     ELSE Placeholder(block)
        titled ==
            IF page_title # << >> /\ Strip(page_title) # << >>
            THEN LET ext == IF Suffix(derived) = << >>
                             THEN DefaultExtension(block.type) ELSE Suffix(derived)
                     safe_page_title == Sanitize(page_title, TitleChars)
                 IN  IF safe_page_title # << >> THEN safe_page_title \o ext ELSE derived
            ELSE derived
        extended ==
            IF Suffix(titled) = << >> THEN titled \o DefaultExtension(block.type)
            ELSE titled
        final == Sanitize(extended, NameChars)
    IN  [ ok |-> supported /\ data.url # << >>,
          filename |-> IF final = << >> THEN Placeholder(block) ELSE final ]

-----------------------------------------------------------------------------
(* The blob store.  Folder and file ids are numbers: Root stands for the   *)
(* alias 'root', ConfiguredFolder for the folder GOOGLE_DRIVE_FOLDER_ID    *)
(* names, and the store hands out drive.next for what it creates.          *)

Root == 0
ConfiguredFolder == 1

\* x or y, for optional ids
Or(x, y) == IF x # None THEN x ELSE y

Folder(id, name, parent) == [ id |-> id, name |-> name, parent |-> parent ]

File(id, name, parent, content, created, modified) ==
    [ id |-> id, name |-> name, parent |-> parent, content |-> content,
      createdTime |-> created, modifiedTime |-> modified ]

\* results.get('files', [])[0]['id'] of a name-and-parent query
FirstId(entries) == Min({ e.id : e \in entries })

CacheKey(parent_folder_id, safe_folder_name) == << parent_folder_id, safe_folder_name >>

\* The result of a folder step: the id (or None), the cache and the store as
\* it leaves them, and the calls it issued.
FolderResult(id, cache, drv, issued) ==
    [ id |-> id, cache |-> cache, drive |-> drv, calls |-> issued ]

_create_or_get_folder_AlwaysCreate(folder_name, parent_folder_id, cache, drv, faults) ==
    LET sanitized == Sanitize(folder_name, NameChars)
        safe_folder_name ==
            IF sanitized = << >> THEN << "Untitled", "_", "Folder" >> ELSE sanitized
        cache_key == CacheKey(parent_folder_id, safe_folder_name)
    IN  IF "folder_create" \in faults
             THEN FolderResult(None, cache, drv,
                               << Call("folders.create", ToString(cache_key), FALSE) >>)
        ELSE FolderResult(drv.next, (cache_key :> drv.next) @@ cache,
                          [ drv EXCEPT !.folders = @ \cup
                                          { Folder(drv.next, safe_folder_name, parent_folder_id) },
                                       !.next = @ + 1 ],
                          << Call("folders.create", ToString(cache_key), TRUE) >>)

_create_or_get_folder_NoCache(folder_name, parent_folder_id, cache, drv, faults) ==
    LET sanitized == Sanitize(folder_name, NameChars)
        safe_folder_name ==
            IF sanitized = << >> THEN << "Untitled", "_", "Folder" >> ELSE sanitized
        cache_key == CacheKey(parent_folder_id, safe_folder_name)
        existing_folders ==
            { f \in drv.folders : f.name = safe_folder_name /\ f.parent = parent_folder_id }
    IN  IF "folder_list" \in faults
             THEN FolderResult(None, cache, drv, << Call("folders.list", ToString(cache_key), FALSE) >>)
        ELSE IF existing_folders # { }
             THEN FolderResult(FirstId(existing_folders),
                               (cache_key :> FirstId(existing_folders)) @@ cache,
                               drv, << Call("folders.list", ToString(cache_key), TRUE) >>)
        ELSE IF "folder_create" \in faults
             THEN FolderResult(None, cache, drv,
                               << Call("folders.list", ToString(cache_key), TRUE),
                                  Call("folders.create", ToString(cache_key), FALSE) >>)
        ELSE FolderResult(drv.next, (cache_key :> drv.next) @@ cache,
                          [ drv EXCEPT !.folders = @ \cup
                                          { Folder(drv.next, safe_folder_name, parent_folder_id) },
                                       !.next = @ + 1 ],
                          << Call("folders.list", ToString(cache_key), TRUE),
                             Call("folders.create", ToString(cache_key), TRUE) >>)

_create_or_get_folder(folder_name, parent_folder_id, cache, drv, faults) ==
    LET sanitized == Sanitize(folder_name, NameChars)
        safe_folder_name ==
            IF sanitized = << >> THEN << "Untitled", "_", "Folder" >> ELSE sanitized
        cache_key == CacheKey(parent_folder_id, safe_folder_name)
        existing_folders ==
            { f \in drv.folders : f.name = safe_folder_name /\ f.parent = parent_folder_id }
    IN  IF cache_key \in DOMAIN cache
             THEN FolderResult(cache[cache_key], cache, drv, << >>)
        ELSE IF "folder_list" \in faults
             THEN FolderResult(None, cache, drv, << Call("folders.list", ToString(cache_key), FALSE) >>)
        ELSE IF existing_folders # { }
             THEN FolderResult(FirstId(existing_folders),
                               cache @@ (cache_key :> FirstId(existing_folders)),
                               drv, << Call("folders.list", ToString(cache_key), TRUE) >>)
        ELSE IF "folder_create" \in faults
             THEN FolderResult(None, cache, drv,
                               << Call("folders.list", ToString(cache_key), TRUE),
                                  Call("folders.create", ToString(cache_key), FALSE) >>)
        ELSE FolderResult(drv.next, cache @@ (cache_key :> drv.next),
                          [ drv EXCEPT !.folders = @ \cup
                                          { Folder(drv.next, safe_folder_name, parent_folder_id) },
                                       !.next = @ + 1 ],
                          << Call("folders.list", ToString(cache_key), TRUE),
                             Call("folders.create", ToString(cache_key), TRUE) >>)

RECURSIVE EnsurePath_KeepGoing(_, _, _, _, _)
EnsurePath_KeepGoing(full_path, current_folder_id, cache, drv, faults) ==
    IF full_path = << >> THEN FolderResult(current_folder_id, cache, drv, << >>)
    ELSE LET step == _create_or_get_folder(Head(full_path), current_folder_id,
                                           cache, drv, faults)
             rest == EnsurePath_KeepGoing(Tail(full_path), Or(step.id, current_folder_id),
                                          step.cache, step.drive, faults)
         IN  [ rest EXCEPT !.calls = step.calls \o @ ]

\* the for loop of create_hierarchical_folders, from current_folder_id on
RECURSIVE EnsurePath(_, _, _, _, _)
EnsurePath(full_path, current_folder_id, cache, drv, faults) ==
    IF full_path = << >> THEN FolderResult(current_folder_id, cache, drv, << >>)
    ELSE LET step == _create_or_get_folder(Head(full_path), current_folder_id,
                                           cache, drv, faults)
         IN  IF step.id = None THEN step
             ELSE LET rest == EnsurePath(Tail(full_path), step.id,
                                         step.cache, step.drive, faults)
                  IN  [ rest EXCEPT !.calls = step.calls \o @ ]

create_hierarchical_folders(full_path, base, cache, drv, faults) ==
    IF full_path = << >> THEN FolderResult(base, cache, drv, << >>)
    ELSE EnsurePath(full_path, Or(base, Root), cache, drv, faults)

\* check_for_duplicate: the id of a file of that name in the folder, or None
check_for_duplicate(filename, target_folder_id, base, drv, faults) ==
    LET folder_id == Or(Or(target_folder_id, base), Root)
        existing_files ==
            { f \in drv.files : f.name = filename /\ f.parent = folder_id }
    IN  IF "dup_query" \in faults \/ existing_files = { } THEN None
        ELSE FirstId(existing_files)

\* The result of an upload: the file id (or None), the store, uploaded_files
\* and the calls issued.
UploadResult(id, drv, uploaded, issued) ==
    [ id |-> id, drive |-> drv, uploaded_files |-> uploaded, calls |-> issued ]

upload_to_google_drive_NoDuplicateCheck(filename, content, page, target_folder_id, base, drv, uploaded, faults) ==
    LET folder_id == Or(Or(target_folder_id, base), Root)
    IN  IF "upload" \in faults
             THEN UploadResult(None, drv, uploaded, << Call("files.create", "", FALSE) >>)
        ELSE UploadResult(drv.next,
                          [ drv EXCEPT !.files = @ \cup
                                          { File(drv.next, filename, folder_id, content,
                                                 page.created_time, page.last_edited_time) },
                                       !.next = @ + 1 ],
                          (filename :> drv.next) @@ uploaded,
                          << Call("files.create", "", TRUE) >>)

\* the upload with the page's timestamps left out of the metadata: the store
\* stamps the file itself
upload_to_google_drive_NoTimestamps(filename, content, page, target_folder_id, base, drv, uploaded, faults) ==
    LET existing_file_id == check_for_duplicate(filename, target_folder_id, base, drv, faults)
        query == Call("files.list", "", "dup_query" \notin faults)
        folder_id == Or(Or(target_folder_id, base), Root)
    IN  IF existing_file_id # None
             THEN UploadResult(existing_file_id, drv, uploaded, << query >>)
        ELSE IF "upload" \in faults
             THEN UploadResult(None, drv, uploaded,
                               << query, Call("files.create", "", FALSE) >>)
        ELSE UploadResult(drv.next,
                          [ drv EXCEPT !.files = @ \cup
                                          { File(drv.next, filename, folder_id, content,
                                                 << "now" >>, << "now" >>) },
                                       !.next = @ + 1 ],
                          (filename :> drv.next) @@ uploaded,
                          << query, Call("files.create", "", TRUE) >>)

upload_to_google_drive(filename, content, page, target_folder_id, base, drv, uploaded, faults) ==
    LET existing_file_id == check_for_duplicate(filename, target_folder_id, base, drv, faults)
        query == Call("files.list", "", "dup_query" \notin faults)
        folder_id == Or(Or(target_folder_id, base), Root)
    IN  IF existing_file_id # None
             THEN UploadResult(existing_file_id, drv, uploaded, << query >>)
        ELSE IF "upload" \in faults
             THEN UploadResult(None, drv, uploaded,
                               << query, Call("files.create", "", FALSE) >>)
        ELSE UploadResult(drv.next,
                          [ drv EXCEPT !.files = @ \cup
                                          { File(drv.next, filename, folder_id, content,
                                                 page.created_time, page.last_edited_time) },
                                       !.next = @ + 1 ],
                          (filename :> drv.next) @@ uploaded,
                          << query, Call("files.create", "", TRUE) >>)

\* the temporary file left where it is when the upload failed
TempFilesAfter_LeftOnFailure(filename, duplicate, created) ==
    IF duplicate THEN { }
    ELSE IF created THEN { filename } \ { filename }
    ELSE { filename }

\* The files upload_to_google_drive leaves in /tmp when it returns: none is
\* written when a duplicate is found (474-477); otherwise /tmp/<filename> is
\* written (480-482) and removed after the upload (521) or, when the upload
\* raised, in the except branch (533-535).
TempFilesAfter(filename, duplicate, created) ==
    IF duplicate THEN { }
    ELSE LET written == { filename }
         IN  IF created THEN written \ { filename }
             ELSE written \ { f \in written : f = filename }

\* get_notion_page_url
get_notion_page_url(page_id) ==
    << "https", ":", "/", "/", "www", ".", "notion", ".", "so", "/" >>
        \o SelectSeq(page_id, LAMBDA c : c # "-")

-----------------------------------------------------------------------------
(* The log file and the cleanup script's reading of it.                    *)

SuccessPrefix == << "Successfully", " ", "migrated", ":", " " >>
Arrow == << " ", "-", ">", " " >>
UrlLabel == << " ", "|", " ", "Notion", " ", "URL", ":", " " >>
UrlPrefix == << "https", ":", "/", "/", "www", ".", "notion", ".", "so", "/" >>

\* logger.info(f"Successfully migrated: {page_title} -> {filename} | Notion URL: {page_url}")
SuccessLine(page_title, filename, page_url) ==
    SuccessPrefix \o page_title \o Arrow \o filename \o UrlLabel \o page_url

\* literal lit occurs in s at position i
LitAt(s, i, lit) ==
    /\ i >= 1
    /\ i + Len(lit) - 1 <= Len(s)
    /\ s[i] = lit[1]
    /\ SubSeq(s, i, i + Len(lit) - 1) = lit

\* [a-f0-9]+ from position i: the last position of the longest run
RECURSIVE HexRunEnd(_, _)
HexRunEnd(s, i) ==
    IF i <= Len(s) /\ s[i] \in HexChars THEN HexRunEnd(s, i + 1) ELSE i - 1

\* where " -> " starts in s
ArrowStarts(s) == { j \in 1..Len(s) : LitAt(s, j, Arrow) }

\* where " | Notion URL: https://www.notion.so/" starts with a hex digit behind it
UrlStarts(s) ==
    { k \in 1..Len(s) :
        /\ LitAt(s, k, UrlLabel \o UrlPrefix)
        /\ k + Len(UrlLabel) + Len(UrlPrefix) <= Len(s)
        /\ s[k + Len(UrlLabel) + Len(UrlPrefix)] \in HexChars }

\* The ways the pattern matches from position i: j is where " -> " starts, k
\* where " | Notion URL: https://www.notion.so/" starts.  Both groups are
\* lazy and hold at least one character, so the match is the least <<j, k>>.
MatchesAt(s, i) ==
    IF ~LitAt(s, i, SuccessPrefix) THEN { }
    ELSE { jk \in ArrowStarts(s) \X UrlStarts(s) :
             /\ jk[1] >= i + Len(SuccessPrefix) + 1
             /\ jk[2] >= jk[1] + Len(Arrow) + 1 }

FirstMatch(s, i) ==
    LET ms == MatchesAt(s, i)
        j == Min({ jk[1] : jk \in ms })
        k == Min({ jk[2] : jk \in { m \in ms : m[1] = j } })
        u == k + Len(UrlLabel)
    IN  [ title |-> SubSeq(s, i + Len(SuccessPrefix), j - 1),
          filename |-> SubSeq(s, j + Len(Arrow), k - 1),
          url |-> SubSeq(s, u, HexRunEnd(s, u + Len(UrlPrefix))),
          last |-> HexRunEnd(s, u + Len(UrlPrefix)) ]

\* re.findall(pattern, line): leftmost matches, none overlapping
RECURSIVE FindAll(_, _)
FindAll(s, from) ==
    LET starts == { i \in from..Len(s) : MatchesAt(s, i) # { } }
    IN  IF starts = { } THEN << >>
        ELSE LET m == FirstMatch(s, Min(starts))
             IN  << m >> \o FindAll(s, m.last + 1)

IdLength == 32

\* _extract_page_id_from_url without the test of the length: the path as it is
_extract_page_id_from_url_NoLengthCheck(notion_url) ==
    SubSeq(notion_url, Len(UrlPrefix) + 1, Len(notion_url))

\* _extract_page_id_from_url with the hyphens left out
_extract_page_id_from_url_NoHyphens(notion_url) ==
    LET path == SubSeq(notion_url, Len(UrlPrefix) + 1, Len(notion_url))
    IN  IF Len(path) >= IdLength
        THEN SubSeq(path, Len(path) - IdLength + 1, Len(path))
        ELSE << >>

\* _extract_page_id_from_url: the dashed id, or << >> for None
_extract_page_id_from_url(notion_url) ==
    LET path == SubSeq(notion_url, Len(UrlPrefix) + 1, Len(notion_url))
        c == SubSeq(path, Len(path) - IdLength + 1, Len(path))
    IN  IF Len(path) >= IdLength
        THEN SubSeq(c, 1, 8) \o << "-" >> \o SubSeq(c, 9, 12) \o << "-" >>
             \o SubSeq(c, 13, 16) \o << "-" >> \o SubSeq(c, 17, 20) \o << "-" >>
             \o SubSeq(c, 21, 32)
        ELSE << >>

\* the records one line of the log yields
LineRecords(line) ==
    LET ms == FindAll(line, 1)
        rec(m) == [ title |-> Strip(m.title), filename |-> Strip(m.filename),
                    url |-> Strip(m.url),
                    page_id |-> _extract_page_id_from_url(Strip(m.url)) ]
    IN  SelectSeq([ i \in 1..Len(ms) |-> rec(ms[i]) ], LAMBDA r : r.page_id # << >>)

\* extract_notion_urls_from_log: "." does not match a line break, so the
\* matches of the file are the matches of its lines, in order
RECURSIVE extract_notion_urls_from_log(_)
extract_notion_urls_from_log(lines) ==
    IF lines = << >> THEN << >>
    ELSE LineRecords(Head(lines)) \o extract_notion_urls_from_log(Tail(lines))

-----------------------------------------------------------------------------
(* Values of the variables a specification does not use.                   *)

\* no earlier run of the migrator
NoRun == [ ran |-> FALSE, stats |-> << >>, migrated_pages |-> << >> ]

NoStats ==
    [ total_pages |-> 0, single_attachment_pages |-> 0,
      successful_migrations |-> 0, failed_migrations |-> 0 ]

NoTrasher ==
    [ started |-> FALSE, migrated_pages |-> << >>, pos |-> 0,
      stats |-> [ total_found |-> 0, successfully_trashed |-> 0, failed_to_trash |-> 0 ],
      trashed_pages |-> << >>, failed_pages |-> << >>, exit_code |-> None ]

\* trashed holds the folders in the trash: no trashed=false query returns them
EmptyDrive == [ folders |-> { }, trashed |-> { }, files |-> { }, next |-> 2 ]

NoCur ==
    [ page |-> 0, blocks_ok |-> TRUE, received |-> 0,
      classified |-> FALSE, raised |-> FALSE,
      qualifies |-> FALSE, parent_pages |-> << >>, full_path |-> << >>,
      target_folder_id |-> None,
      filename |-> << >>, file_id |-> None, existing |-> { }, temp_files |-> { },
      outcome |-> "none" ]

Unused ==
    /\ source = << >>
    /\ first_run = NoRun
    /\ gdrive_folder_id = None
    /\ pages = << >>
    /\ idx = 0
    /\ stats = NoStats
    /\ migrated_pages = << >>
    /\ database_folder_cache = << >>
    /\ uploaded_files = << >>
    /\ drive = EmptyDrive
    /\ log = << >>
    /\ calls = << >>
    /\ cur = NoCur
    /\ dry_run = FALSE
    /\ trasher = NoTrasher
    /\ archived = << >>

-----------------------------------------------------------------------------
(* The source items a listing may return.                                  *)

HostedPdf ==
    [ src |-> "file", caption |-> << >>,
      url |-> << "https", ":", "/", "/", "s3", "/", "report", ".", "pdf", "?", "sig", "=", "1" >> ]

ExternalImage ==
    [ src |-> "external", caption |-> << >>,
      url |-> << "https", ":", "/", "/", "img", "/", "diagram", ".", "png", "?", "x", "=", "1" >> ]

HostedScan ==
    [ src |-> "file", caption |-> << >>,
      url |-> << "https", ":", "/", "/", "s3", "/", "scan" >> ]

Blocks(kinds) == [ i \in 1..Len(kinds) |-> MkBlock(i, kinds[i]) ]

Item(k, title, parent, kinds) ==
    [ id |-> PageId(k), title |-> title, parent |-> parent, blocks |-> Blocks(kinds),
      created_time |-> << "created", ToString(k) >>,
      last_edited_time |-> << "edited", ToString(k) >> ]

\* a title that reads like the tail of a success line naming page 4
ForgedTitle ==
    << "Q3" >> \o Arrow \o << "y" >> \o UrlLabel \o get_notion_page_url(PageId(4))

Items ==
    << Item(1, << "Report" >>, DbRef("D1"), << Kind("pdf", "att", HostedPdf) >>),
       Item(2, << "My", " ", "Notes" >>, PageRef("B"),
            << Kind("divider", "absent", NoAtt), Kind("image", "att", ExternalImage) >>),
       Item(3, << "Report" >>, DbRef("D1"), << Kind("pdf", "att", HostedPdf) >>),
       Item(4, << "Draft" >>, DbRef("D1"),
            << Kind("image", "att", ExternalImage), Kind("paragraph", "text", NoAtt) >>),
       Item(5, ForgedTitle, WorkspaceRef, << Kind("file", "att", HostedScan) >>),
       Item(6, << "Bad" >>, DbRef("D1"), << Kind("paragraph", "null", NoAtt) >>),
       Item(7, << "Scan" >>, BlockRef("K1"), << Kind("image", "att", HostedScan) >>),
       Item(8, << "Memo" >>, PageRef("R"), << Kind("file", "att", HostedPdf) >>) >>

ItemNumbers == 1..Len(Items)

\* listings of at most MaxItems distinct pages
Listings ==
    UNION { { l \in [ 1..n -> ItemNumbers ] : \A i, j \in 1..n : i # j => l[i] # l[j] }
            : n \in 0..MaxItems }

\* what may fail while one page is processed: kinds of call, or store nodes
CallFaults == { "blocks", "folder_list", "folder_create", "get", "dup_query", "upload" }
NodeFaults == { "D1", "A", "B" }
FaultSets == { f \in SUBSET (CallFaults \cup NodeFaults) : Cardinality(f) <= MaxFaults }

\* the store before the run: empty, or holding Projects/Report.pdf from before
PriorDrive(base) ==
    [ folders |-> { Folder(2, << "Projects" >>, Or(base, Root)) },
      trashed |-> { },
      files |-> { File(3, << "Report", ".", "pdf" >>, 2, 0, << "old" >>, << "old" >>) },
      next |-> 4 ]

-----------------------------------------------------------------------------
(* The migration run.                                                      *)

Init ==
    /\ pc = "start"
    /\ source \in Listings
    /\ first_run = NoRun
    /\ gdrive_folder_id \in { None, ConfiguredFolder }
    /\ drive \in { EmptyDrive, PriorDrive(gdrive_folder_id) }
    /\ pages = << >>
    /\ idx = 0
    /\ stats = NoStats
    /\ migrated_pages = << >>
    /\ database_folder_cache = << >>
    /\ uploaded_files = << >>
    /\ log = << >>
    /\ calls = << >>
    /\ cur = NoCur
    /\ dry_run = FALSE
    /\ trasher = NoTrasher
    /\ archived = << >>
    /\ fnIn = << >>
    /\ fnOut = << >>

\* get_notion_pages and the head of migrate_single_attachment_pages
\* the pages received so far kept when a request of the listing fails
get_notion_pages_Partial(listing, received) == SubSeq(listing, 1, received)

\* get_notion_pages: the listing (a database query or a search) arrives in
\* successive responses; received is the number of pages the responses had
\* delivered when a request raised, or Len(listing) when none did.  The
\* except branch returns an empty list.
get_notion_pages(listing, received) ==
    IF received = Len(listing) THEN listing ELSE << >>

\* the call that ends the listing: the request that raised, with the cursor
\* it was issued at, or the last successful one
ListingCall(ok, received) ==
    IF ok THEN Call("pages.list", "", TRUE)
    ELSE Call("pages.list", ToString(received), FALSE)

StartRun ==
    /\ pc = "start"
    /\ \E ok \in BOOLEAN :
       \E received \in { n \in 0..Len(source) :
                            IF ok THEN n = Len(source)
                            ELSE n = 0 \/ n < Len(source) } :
          /\ pages' = get_notion_pages(source, received)
          /\ calls' = << ListingCall(ok, received) >>
    /\ stats' = [ stats EXCEPT !.total_pages = Len(pages') ]
    /\ pc' = IF pages' = << >> THEN "done" ELSE "loop"
    /\ idx' = 1
    /\ UNCHANGED << source, first_run, gdrive_folder_id, migrated_pages,
                    database_folder_cache, uploaded_files, drive, log, cur,
                    trasherVars, fnIn, fnOut >>

\* the target folder of a qualifying page: lines 762-774
TargetFolder(h, base, cache, drv, faults) ==
    IF h.full_path # << >>
    THEN create_hierarchical_folders(h.full_path, base, cache, drv, faults)
    ELSE IF h.database_id # ""
    THEN create_hierarchical_folders(
             << get_database_name(h.database_id, faults \cap StoreNodes) >>,
             base, cache, drv, faults)
    ELSE FolderResult(None, cache, drv, << >>)

RecordsAfter_Always(records, file_id, record) == Append(records, record)

RecordsAfter_Never(records, file_id, record) == records

\* self.migrated_pages after the upload returned file_id: lines 783-793
RecordsAfter(records, file_id, record) ==
    IF file_id # None THEN Append(records, record) ELSE records

\* the fetch tried a second time after it failed
FetchCalls_Retry(named_ok, faults) ==
    IF ~named_ok THEN << >>
    ELSE IF "get" \in faults
    THEN << Call("http.get", "", FALSE), Call("http.get", "", FALSE) >>
    ELSE << Call("http.get", "", TRUE) >>

\* the requests download_attachment issues once the name is derived: one
\* requests.get, whose failure (raise_for_status included) is not retried
FetchCalls(named_ok, faults) ==
    IF named_ok THEN << Call("http.get", "", "get" \notin faults) >> ELSE << >>

\* the calls of a qualifying page with the folders made before the ancestors
\* are looked up
PageCalls_FoldersFirst(hierarchy_calls, folder_calls, fetch_calls, upload_calls) ==
    << Call("blocks.list", "", TRUE) >>
        \o folder_calls \o hierarchy_calls \o fetch_calls \o upload_calls

\* the calls of a qualifying page, in the order of the loop body: lines 743,
\* 753, 762-774, 777, 782
PageCalls(hierarchy_calls, folder_calls, fetch_calls, upload_calls) ==
    << Call("blocks.list", "", TRUE) >>
        \o hierarchy_calls \o folder_calls \o fetch_calls \o upload_calls

\* the blocks received so far kept when a request of the listing fails
get_page_blocks_Partial(blocks, received) == SubSeq(blocks, 1, received)

\* get_page_blocks: the listing arrives in successive responses; received is
\* the number of blocks the responses had delivered when a request raised, or
\* Len(blocks) when none did.  The except branch returns an empty list.
get_page_blocks(blocks, received) ==
    IF received = Len(blocks) THEN blocks ELSE << >>

\* how many blocks may have arrived when a request of the listing raises: the
\* first request may raise, a later one only while blocks remain to be listed
ReceivedBefore(blocks, faults) ==
    IF "blocks" \in faults
    THEN { n \in 0..Len(blocks) : n = 0 \/ n < Len(blocks) }
    ELSE { Len(blocks) }

\* the statistics with a failed transfer left uncounted
StatsAfter_FailureUncounted(stats_, file_id) ==
    [ stats_ EXCEPT
        !.single_attachment_pages = @ + 1,
        !.successful_migrations = IF file_id # None THEN @ + 1 ELSE @ ]

\* stats after a qualifying page whose transfer returned file_id (None when
\* the download or the upload failed): lines 749, 784, 795, 798
StatsAfter(stats_, file_id) ==
    [ stats_ EXCEPT
        !.single_attachment_pages = @ + 1,
        !.successful_migrations = IF file_id # None THEN @ + 1 ELSE @,
        !.failed_migrations = IF file_id # None THEN @ ELSE @ + 1 ]

\* the log lines of one loop body that carry the page's title
PageLines(page_title, cls, download_ok, file_id, filename, page_url) ==
    << << "Processing", " ", "page", ":", " " >> \o page_title >>
    \o (IF cls.raised THEN << >>
        ELSE IF ~cls.is_single
        THEN << << "Skipping", " ", "page", " ", "(", "not", " ", "single", " ",
                   "attachment", ")", ":", " " >> \o page_title >>
        ELSE << << "Found", " ", "single", " ", "attachment", " ", "page", ":", " " >>
                    \o page_title,
                << "Page", " ", "hierarchy", " ", "for", " ", "'" >>
                    \o page_title \o << "'", ":" >>,
                IF ~download_ok
                THEN << "Failed", " ", "to", " ", "download", " ", "attachment", " ",
                        "from", ":", " " >> \o page_title
                ELSE IF file_id = None
                THEN << "Failed", " ", "to", " ", "upload", ":", " " >> \o page_title
                ELSE SuccessLine(page_title, filename, page_url) >>)

\* one iteration of the for loop of migrate_single_attachment_pages
ProcessPage ==
    /\ pc = "loop"
    /\ idx <= Len(pages)
    /\ \E faults \in FaultSets :
       \E page \in { Items[pages[idx]] } :
       \E page_title \in { get_page_title(page.title, page.id) } :
       \E received \in ReceivedBefore(page.blocks, faults) :
       \E cls \in { is_single_attachment_page(
                        get_page_blocks(page.blocks, received)) } :
          IF cls.raised
          THEN /\ pc' = "aborted"
               /\ log' = log \o PageLines(page_title, cls, FALSE, None, << >>, << >>)
               /\ calls' = << Call("blocks.list", "", TRUE) >>
               /\ cur' = [ NoCur EXCEPT !.page = pages[idx], !.raised = TRUE,
                                        !.blocks_ok = "blocks" \notin faults,
                                        !.received = received,
                                        !.outcome = "raised" ]
               /\ UNCHANGED << stats, migrated_pages, database_folder_cache,
                               uploaded_files, drive >>
          ELSE IF ~cls.is_single
          THEN /\ pc' = "loop"
               /\ log' = log \o PageLines(page_title, cls, FALSE, None, << >>, << >>)
               /\ calls' = << Call("blocks.list", "", "blocks" \notin faults) >>
               /\ cur' = [ NoCur EXCEPT !.page = pages[idx],
                                        !.blocks_ok = "blocks" \notin faults,
                                        !.received = received,
                                        !.classified = TRUE,
                                        !.outcome = "skipped" ]
               /\ UNCHANGED << stats, migrated_pages, database_folder_cache,
                               uploaded_files, drive >>
          ELSE \E hierarchy \in { get_page_hierarchy(page.parent, faults \cap StoreNodes) } :
               \E folder \in { TargetFolder(hierarchy, gdrive_folder_id,
                                            database_folder_cache, drive, faults) } :
               \E named \in { attachment_filename(cls.attachment_block, page_title) } :
               \E download_ok \in { named.ok /\ "get" \notin faults } :
               \E up \in { IF download_ok
                           THEN upload_to_google_drive(named.filename, pages[idx], page,
                                                       folder.id, gdrive_folder_id,
                                                       folder.drive, uploaded_files, faults)
                           ELSE UploadResult(None, folder.drive, uploaded_files, << >>) } :
               \E page_url \in { get_notion_page_url(page.id) } :
                  /\ pc' = "loop"
                  /\ log' = log \o PageLines(page_title, cls, download_ok, up.id,
                                             named.filename, page_url)
                  /\ calls' = PageCalls(hierarchy.calls, folder.calls,
                                         FetchCalls(named.ok, faults), up.calls)
                  /\ database_folder_cache' = folder.cache
                  /\ drive' = up.drive
                  /\ uploaded_files' = up.uploaded_files
                  /\ stats' = StatsAfter(stats, up.id)
                  /\ migrated_pages' =
                        RecordsAfter(migrated_pages, up.id,
                                     [ title |-> page_title, url |-> page_url,
                                       filename |-> named.filename ])
                  /\ cur' = [ page |-> pages[idx],
                              blocks_ok |-> "blocks" \notin faults,
                              received |-> received,
                              classified |-> TRUE, raised |-> FALSE,
                              qualifies |-> TRUE,
                              parent_pages |-> hierarchy.parent_pages,
                              full_path |-> hierarchy.full_path,
                              target_folder_id |-> folder.id,
                              filename |-> named.filename,
                              file_id |-> up.id,
                              temp_files |->
                                  IF download_ok
                                  THEN TempFilesAfter(
                                           named.filename,
                                           check_for_duplicate(named.filename, folder.id,
                                               gdrive_folder_id, folder.drive, faults) # None,
                                           up.id # None)
                                  ELSE { },
                              existing |->
                                  { f.id : f \in
                                      { g \in folder.drive.files :
                                          /\ g.name = named.filename
                                          /\ g.parent = Or(Or(folder.id, gdrive_folder_id),
                                                           Root) } },
                              outcome |->
                                  IF ~download_ok THEN "failed_download"
                                  ELSE IF up.id = None THEN "failed_upload"
                                  ELSE IF Call("files.create", "", TRUE) \in
                                            { up.calls[i] : i \in 1..Len(up.calls) }
                                  THEN "uploaded" ELSE "duplicate" ]
    /\ idx' = idx + 1
    /\ UNCHANGED << source, first_run, gdrive_folder_id, pages, trasherVars,
                    fnIn, fnOut >>

\* the summary after the loop, and the return of the statistics
FinishRun ==
    /\ pc = "loop"
    /\ idx > Len(pages)
    /\ log' = log \o [ i \in 1..Len(migrated_pages) |->
                         << ToString(i), ".", " " >> \o migrated_pages[i].title ]
    /\ pc' = "done"
    /\ UNCHANGED << source, first_run, gdrive_folder_id, pages, idx, stats,
                    migrated_pages, database_folder_cache, uploaded_files, drive,
                    calls, cur, trasherVars, fnIn, fnOut >>

-----------------------------------------------------------------------------
(* The cleanup run, on the log the migration left.                         *)

\* trash_migrated_pages up to the loop
StartCleanup ==
    /\ pc \in { "done", "aborted" }
    /\ \E flag \in BOOLEAN : dry_run' = flag
    /\ \E token \in BOOLEAN :
          IF ~token
          THEN \* NotionPageTrasher() raises: main's except branch returns 1
               /\ trasher' = [ NoTrasher EXCEPT !.exit_code = 1 ]
               /\ pc' = "exit"
          ELSE \E records \in { extract_notion_urls_from_log(log) } :
                 /\ trasher' = [ NoTrasher EXCEPT
                                   !.started = TRUE,
                                   !.migrated_pages = records,
                                   !.pos = 1,
                                   !.stats.total_found = Len(records),
                                   !.exit_code = IF records = << >> THEN 0 ELSE None ]
                 /\ pc' = IF records = << >> THEN "exit" ELSE "trash"
    /\ UNCHANGED << migratorVars, archived, fnIn, fnOut >>

\* TrashNext with the batch given up at the first failed archive request
TrashNext_AbortOnFailure ==
    /\ pc = "trash"
    /\ trasher.pos <= Len(trasher.migrated_pages)
    /\ \E page_info \in { trasher.migrated_pages[trasher.pos] } :
           IF dry_run
           THEN /\ trasher' = [ trasher EXCEPT !.pos = @ + 1,
                                               !.stats.successfully_trashed = @ + 1 ]
                /\ UNCHANGED archived
           ELSE \E ok \in BOOLEAN :
                  /\ archived' = Append(archived, page_info.page_id)
                  /\ trasher' =
                        IF ok
                        THEN [ trasher EXCEPT !.pos = @ + 1,
                                              !.stats.successfully_trashed = @ + 1,
                                              !.trashed_pages = Append(@, page_info) ]
                        ELSE [ trasher EXCEPT !.pos = Len(trasher.migrated_pages) + 1,
                                              !.stats.failed_to_trash = @ + 1,
                                              !.failed_pages = Append(@, page_info) ]
    /\ UNCHANGED << pc, dry_run, migratorVars, fnIn, fnOut >>

\* TrashNext with the archive request issued in dry-run mode too
TrashNext_IgnoreDryRun ==
    /\ pc = "trash"
    /\ trasher.pos <= Len(trasher.migrated_pages)
    /\ \E page_info \in { trasher.migrated_pages[trasher.pos] } :
          /\ archived' = Append(archived, page_info.page_id)
          /\ trasher' = [ trasher EXCEPT !.pos = @ + 1,
                                         !.stats.successfully_trashed = @ + 1,
                                         !.trashed_pages = Append(@, page_info) ]
    /\ UNCHANGED << pc, dry_run, migratorVars, fnIn, fnOut >>

\* one iteration of the loop of trash_migrated_pages, trash_page included
TrashNext ==
    /\ pc = "trash"
    /\ trasher.pos <= Len(trasher.migrated_pages)
    /\ \E page_info \in { trasher.migrated_pages[trasher.pos] } :
           IF dry_run
           THEN /\ trasher' = [ trasher EXCEPT !.pos = @ + 1,
                                               !.stats.successfully_trashed = @ + 1 ]
                /\ UNCHANGED archived
           ELSE \E ok \in BOOLEAN :
                  /\ archived' = Append(archived, page_info.page_id)
                  /\ trasher' =
                        IF ok
                        THEN [ trasher EXCEPT !.pos = @ + 1,
                                              !.stats.successfully_trashed = @ + 1,
                                              !.trashed_pages = Append(@, page_info) ]
                        ELSE [ trasher EXCEPT !.pos = @ + 1,
                                              !.stats.failed_to_trash = @ + 1,
                                              !.failed_pages = Append(@, page_info) ]
    /\ UNCHANGED << pc, dry_run, migratorVars, fnIn, fnOut >>

\* main's exit code with the failures left out
ExitCode_AlwaysZero(stats_) == 0

\* main's exit code after trash_migrated_pages returned stats_
ExitCode(stats_) == IF stats_.failed_to_trash > 0 THEN 1 ELSE 0

\* the return of trash_migrated_pages and main's exit code
FinishCleanup ==
    /\ pc = "trash"
    /\ trasher.pos > Len(trasher.migrated_pages)
    /\ trasher' = [ trasher EXCEPT !.exit_code = ExitCode(trasher.stats) ]
    /\ pc' = "exit"
    /\ UNCHANGED << dry_run, archived, migratorVars, fnIn, fnOut >>

Next == StartRun \/ ProcessPage \/ FinishRun \/ StartCleanup \/ TrashNext \/ FinishCleanup

Spec == Init /\ [][Next]_vars

-----------------------------------------------------------------------------
(* SpecRerun: the migrator run a second time, as a new process, against    *)
(* the same document store and the blob store the first run left.          *)

\* the script started again after a run that returned its statistics
Restart ==
    /\ pc = "done"
    /\ ~first_run.ran
    /\ first_run' = [ ran |-> TRUE, stats |-> stats, migrated_pages |-> migrated_pages ]
    /\ pc' = "start"
    /\ pages' = << >>
    /\ idx' = 0
    /\ stats' = NoStats
    /\ migrated_pages' = << >>
    /\ database_folder_cache' = << >>
    /\ uploaded_files' = << >>
    /\ log' = << >>
    /\ calls' = << >>
    /\ cur' = NoCur
    /\ UNCHANGED << source, gdrive_folder_id, drive, trasherVars, fnIn, fnOut >>

NextRerun == StartRun \/ ProcessPage \/ FinishRun \/ Restart

SpecRerun == Init /\ [][NextRerun]_vars

-----------------------------------------------------------------------------
(* migrate_single_attachment_pages called a second time on the same        *)
(* migrator object.                                                        *)

\* The second call: stats and pages are locals of the method and start anew;
\* database_folder_cache, uploaded_files and migrated_pages are attributes
\* set in __init__ only, and the log file is the one the process opened.
Reinvoke ==
    /\ pc = "done"
    /\ ~first_run.ran
    /\ first_run' = [ ran |-> TRUE, stats |-> stats, migrated_pages |-> migrated_pages ]
    /\ pc' = "start"
    /\ pages' = << >>
    /\ idx' = 0
    /\ stats' = NoStats
    /\ calls' = << >>
    /\ cur' = NoCur
    /\ UNCHANGED << source, gdrive_folder_id, drive, migrated_pages,
                    database_folder_cache, uploaded_files, log, trasherVars,
                    fnIn, fnOut >>

NextReinvoke == StartRun \/ ProcessPage \/ FinishRun \/ Reinvoke

SpecReinvoke == Init /\ [][NextReinvoke]_vars

-----------------------------------------------------------------------------
(* The cleanup script run on a log file of summary lines whose embedded    *)
(* identifiers need not be well formed.                                    *)

\* the identifier of page k as get_notion_page_url embeds it: 32 hex characters
Compact(k) == SelectSeq(PageId(k), LAMBDA c : c # "-")

\* the identifier abcdef0123456789abcdef0123456789
ExampleId == [ i \in 1..32 |-> HexDigits[((i + 9) % 16) + 1] ]

\* Embedded identifiers: three well-formed ones, one a character short, one
\* left in dashed form, one with a character that is no hex digit, one with
\* an upper-case first character, and one a character too long.
EmbeddedIds ==
    { Compact(1), Compact(2), ExampleId,
      SubSeq(Compact(1), 1, IdLength - 1),
      PageId(1),
      [ Compact(1) EXCEPT ![10] = "g" ],
      [ Compact(1) EXCEPT ![1] = "A" ],
      Compact(1) \o << "0" >> }

LoggedTitles == { << "Memo" >>, << "Q1", " ", "plan" >> }

\* what a summary line is written from
LoggedItems ==
    { [ title |-> t, filename |-> << "report", ".", "pdf" >>, id |-> e ] :
        t \in LoggedTitles, e \in EmbeddedIds }

LoggedLine(d) == SuccessLine(d.title, d.filename, UrlPrefix \o d.id)

InitLog ==
    /\ pc = "done"
    /\ \E n \in 1..MaxLines : fnIn \in [ 1..n -> LoggedItems ]
    /\ log = [ i \in 1..Len(fnIn) |-> LoggedLine(fnIn[i]) ]
    /\ fnOut = << >>
    /\ source = << >>
    /\ first_run = NoRun
    /\ gdrive_folder_id = None
    /\ pages = << >>
    /\ idx = 0
    /\ stats = NoStats
    /\ migrated_pages = << >>
    /\ database_folder_cache = << >>
    /\ uploaded_files = << >>
    /\ drive = EmptyDrive
    /\ calls = << >>
    /\ cur = NoCur
    /\ dry_run = FALSE
    /\ trasher = NoTrasher
    /\ archived = << >>

NextLog == StartCleanup \/ TrashNext \/ FinishCleanup

SpecLog == InitLog /\ [][NextLog]_vars

-----------------------------------------------------------------------------
(* SpecClassify: is_single_attachment_page applied to every block list of  *)
(* at most MaxBlocks blocks.                                               *)

AttHosted == [ src |-> "file", url |-> << "https", ":", "/", "/", "s3", "/", "report", ".", "pdf" >>,
               caption |-> << >> ]

BlockKinds ==
    { Kind("paragraph", p, NoAtt) : p \in { "text", "empty", "absent", "null" } }
    \cup { Kind("heading_1", "text", NoAtt), Kind("heading_2", "empty", NoAtt) }
    \cup { Kind(t, "att", AttHosted) : t \in AttachmentTypes }
    \cup { Kind(t, "absent", NoAtt) : t \in StructuralTypes }
    \cup { Kind("to_do", "text", NoAtt), Kind(NoType, "absent", NoAtt) }

BlockLists ==
    UNION { { [ i \in 1..n |-> MkBlock(i, kinds[i]) ] : kinds \in [ 1..n -> BlockKinds ] }
            : n \in 0..MaxBlocks }

InitClassify ==
    /\ pc = "classify"
    /\ fnIn \in BlockLists
    /\ fnOut = is_single_attachment_page(<< >>)
    /\ Unused

Classify ==
    /\ pc = "classify"
    /\ fnOut' = is_single_attachment_page(fnIn)
    /\ pc' = "classified"
    /\ UNCHANGED << migratorVars, trasherVars, fnIn >>

SpecClassify == InitClassify /\ [][Classify]_vars

-----------------------------------------------------------------------------
(* The file name download_attachment derives, over attachment blocks and   *)
(* page titles.                                                            *)

Captions == { << >>, << " " >>, << "fig", ".", "jpg" >>, << "notes" >> }

AttachmentUrls ==
    { ExternalImage.url, HostedPdf.url, HostedScan.url,
      << "https", ":", "/", "/", "s3", "/" >> }

PageTitles ==
    { << >>, << "My", " ", "Notes" >>, << "v1", ".", "2" >>,
      << "Q1", ":", " ", "plan" >>, << "?", "?" >> }

NamedBlocks ==
    { MkBlock(7, Kind(t, "att", [ src |-> "file", caption |-> c, url |-> u ])) :
        t \in AttachmentTypes, c \in Captions, u \in AttachmentUrls }

InitNames ==
    /\ pc = "name"
    /\ fnIn \in { [ block |-> b, page_title |-> t ] : b \in NamedBlocks, t \in PageTitles }
    /\ fnOut = << >>
    /\ Unused

DeriveName ==
    /\ pc = "name"
    /\ fnOut' = attachment_filename(fnIn.block, fnIn.page_title)
    /\ pc' = "named"
    /\ UNCHANGED << migratorVars, trasherVars, fnIn >>

SpecNames == InitNames /\ [][DeriveName]_vars

-----------------------------------------------------------------------------
(* SpecHierarchy: get_page_hierarchy applied to a page below every parent  *)
(* reference of the store, with at most MaxDown nodes failing to load.     *)

ParentRefs ==
    { DbRef(d) : d \in Databases }
    \cup { PageRef(p) : p \in AncestorPages }
    \cup { BlockRef(b) : b \in AncestorBlocks }
    \cup { WorkspaceRef, NoParent }

DownSets == { d \in SUBSET StoreNodes : Cardinality(d) <= MaxDown }

InitHierarchy ==
    /\ pc = "resolve"
    /\ fnIn \in [ parent : ParentRefs, down : DownSets ]
    /\ fnOut = EmptyHierarchy
    /\ Unused

Resolve ==
    /\ pc = "resolve"
    /\ fnOut' = get_page_hierarchy(fnIn.parent, fnIn.down)
    /\ pc' = "resolved"
    /\ UNCHANGED << migratorVars, trasherVars, fnIn >>

SpecHierarchy == InitHierarchy /\ [][Resolve]_vars

-----------------------------------------------------------------------------
(* SpecFolders: create_hierarchical_folders called up to MaxCalls times in *)
(* one run, on one cache and one store; fnOut is the history of the calls. *)

Paths ==
    { << >>,
      << << "Projects" >> >>,
      << << "Projects" >>, << "2024" >> >>,
      << << "Projects" >>, << "2024" >>, << "2024" >> >>,
      << << "Projects" >>, << "Q1" >> >>,
      << << "Projects" >>, << "Q1", "/" >> >>,
      << << "2024" >> >>,
      << << "/" >> >> }

FolderFaultSets ==
    { f \in SUBSET { "folder_list", "folder_create" } : Cardinality(f) <= MaxFaults }

InitFolders ==
    /\ pc = "folders"
    /\ source = << >>
    /\ first_run = NoRun
    /\ gdrive_folder_id \in { None, ConfiguredFolder }
    /\ drive \in { EmptyDrive, PriorDrive(gdrive_folder_id) }
    /\ database_folder_cache = << >>
    /\ fnIn = << >>
    /\ fnOut = << >>
    /\ pages = << >>
    /\ idx = 0
    /\ stats = NoStats
    /\ migrated_pages = << >>
    /\ uploaded_files = << >>
    /\ log = << >>
    /\ calls = << >>
    /\ cur = NoCur
    /\ dry_run = FALSE
    /\ trasher = NoTrasher
    /\ archived = << >>

\* one call of create_hierarchical_folders
EnsureFolders ==
    /\ pc = "folders"
    /\ Len(fnOut) < MaxCalls
    /\ \E full_path \in Paths, faults \in FolderFaultSets :
       \E r \in { create_hierarchical_folders(full_path, gdrive_folder_id,
                                              database_folder_cache, drive, faults) } :
          /\ database_folder_cache' = r.cache
          /\ drive' = r.drive
          /\ calls' = r.calls
          /\ fnOut' = Append(fnOut, [ full_path |-> full_path, id |-> r.id,
                                       calls |-> r.calls ])
    /\ UNCHANGED << pc, source, first_run, gdrive_folder_id, pages, idx, stats,
                    migrated_pages, uploaded_files, log, cur, trasherVars, fnIn >>

SpecFolders == InitFolders /\ [][EnsureFolders]_vars

-----------------------------------------------------------------------------
(* create_hierarchical_folders over several runs: each run is a new        *)
(* migrator, with an empty cache, on the store the earlier runs left.      *)

\* the store with a Projects folder in the trash
TrashedDrive(base) ==
    [ EmptyDrive EXCEPT !.trashed = { Folder(2, << "Projects" >>, Or(base, Root)) },
                        !.next = 3 ]

InitFolderRuns ==
    /\ pc = "folders"
    /\ gdrive_folder_id \in { None, ConfiguredFolder }
    /\ drive \in { EmptyDrive, PriorDrive(gdrive_folder_id),
                   TrashedDrive(gdrive_folder_id) }
    /\ source = << >>
    /\ first_run = NoRun
    /\ database_folder_cache = << >>
    /\ fnIn = << >>
    /\ fnOut = << >>
    /\ pages = << >>
    /\ idx = 0
    /\ stats = NoStats
    /\ migrated_pages = << >>
    /\ uploaded_files = << >>
    /\ log = << >>
    /\ calls = << >>
    /\ cur = NoCur
    /\ dry_run = FALSE
    /\ trasher = NoTrasher
    /\ archived = << >>

\* the process ends and a new one starts: __init__ sets the cache to {}
NewRun ==
    /\ pc = "folders"
    /\ database_folder_cache # << >>
    /\ database_folder_cache' = << >>
    /\ UNCHANGED << pc, source, first_run, gdrive_folder_id, pages, idx, stats,
                    migrated_pages, uploaded_files, drive, log, calls, cur,
                    trasherVars, fnIn, fnOut >>

NextFolderRuns == EnsureFolders \/ NewRun

SpecFolderRuns == InitFolderRuns /\ [][NextFolderRuns]_vars

-----------------------------------------------------------------------------
(* Claims about the classifier (SpecClassify).                             *)

\* "meaningful" as the specification words it
Meaningful(b) ==
    \/ b.type \in TextTypes /\ b.payload = "text"
    \/ b.type \in AttachmentTypes
    \/ b.type \notin (TextTypes \cup AttachmentTypes \cup StructuralTypes)

MeaningfulAt(blocks) == { i \in 1..Len(blocks) : Meaningful(blocks[i]) }

Malformed(b) ==
    \/ b.type = NoType
    \/ b.type \in TextTypes /\ b.payload \in { "absent", "null" }

\* C6: classification never raises, and a malformed block is never added to
\* the meaningful blocks.
C6_NoFailureMode ==
    pc = "classified" =>
        /\ ~fnOut.raised
        /\ \A i \in 1..Len(fnIn) :
              Malformed(fnIn[i]) =>
                  \A j \in 1..Len(fnOut.content_blocks) : fnOut.content_blocks[j] # fnIn[i]

-----------------------------------------------------------------------------
(* Claims about hierarchy resolution (SpecHierarchy).                      *)

CollectionName(d) ==
    IF TitleArray(d) # << >> THEN TitleArray(d)
    ELSE << "Untitled", " ", "Database", " ", "(", d, ")" >>

ContainerTitle(p) ==
    IF TitleArray(p) # << >> THEN TitleArray(p)
    ELSE << "Untitled", " ", "Page", " ", "(", p, ")" >>

\* The path the specification describes for a parent reference, built from the
\* collection downwards: collection name, then the containers, nearest last.
RECURSIVE ClaimPath(_, _)
ClaimPath(ref, fuel) ==
    IF fuel = 0 THEN << >>
    ELSE CASE ref.type = "database_id" -> << CollectionName(ref.id) >>
           [] ref.type = "page_id" ->
                LET up == ClaimPath(ParentOf(ref.id), fuel - 1)
                IN  IF up = << >> THEN << >> ELSE up \o << ContainerTitle(ref.id) >>
           [] ref.type = "block_id" -> ClaimPath(ParentOf(ref.id), fuel - 1)
           [] OTHER -> << >>

ExpectedPath(ref) == ClaimPath(ref, Cardinality(StoreNodes) + 1)

\* the reference starts a chain of item-refs only, ending at a collection-ref
RECURSIVE ItemChain(_, _)
ItemChain(ref, fuel) ==
    IF fuel = 0 THEN FALSE
    ELSE CASE ref.type = "database_id" -> TRUE
           [] ref.type = "page_id" -> ItemChain(ParentOf(ref.id), fuel - 1)
           [] OTHER -> FALSE

Fetched(op) == { i \in 1..Len(fnOut.calls) : fnOut.calls[i].op = op }
FailedFetch(op) == { i \in Fetched(op) : ~fnOut.calls[i].ok }

\* C7: for an item whose own parent is a block-ref, resolution fetches that
\* block and follows the block's parent (collection, item or block).
C7_BlockRefParent ==
    (pc = "resolved" /\ fnIn.parent.type = "block_id" /\ fnIn.down = { }) =>
        /\ fnOut.calls # << >>
        /\ fnOut.calls[1] = Call("blocks.retrieve", fnIn.parent.id, TRUE)
        /\ fnOut.full_path = ExpectedPath(fnIn.parent)

\* C8: below n >= 1 item ancestors that end at a collection, the path is the
\* collection name, then the ancestors' titles from the outermost to the nearest.
C8_ItemChainPath ==
    (/\ pc = "resolved"
     /\ fnIn.down = { }
     /\ fnIn.parent.type = "page_id"
     /\ ItemChain(fnIn.parent, Cardinality(StoreNodes) + 1)) =>
        /\ fnOut.full_path = ExpectedPath(fnIn.parent)
        /\ fnIn.parent = PageRef("B") =>
              fnOut.full_path = << << "Projects" >>, << "2024" >>, << "Q1" >> >>
        /\ fnIn.parent = PageRef("E") =>
              fnOut.full_path = << << "Projects" >>, << "2024" >>, << "2024" >> >>

\* the chain collection 'Projects' -> '2024' -> 'Q1' -> target
C8_Witness ==
    /\ pc = "resolved"
    /\ fnIn.down = { }
    /\ fnIn.parent = PageRef("B")
    /\ Len(fnOut.full_path) = 3

C10_CollectionParent ==
    (pc = "resolved" /\ fnIn.parent.type = "database_id") =>
        /\ Len(fnOut.full_path) = 1
        /\ Fetched("pages.retrieve") \cup Fetched("blocks.retrieve") = { }
        /\ fnIn.parent.id \notin fnIn.down =>
              fnOut.full_path = << CollectionName(fnIn.parent.id) >>
        /\ (fnIn.parent = DbRef("D1") /\ fnIn.down = { }) =>
              fnOut.full_path = << << "Projects" >> >>

C10_Witness ==
    /\ pc = "resolved"
    /\ fnIn.parent = DbRef("D1")
    /\ fnIn.down = { }
    /\ fnOut.full_path = << << "Projects" >> >>

\* C28: resolution tracks the references it visited and returns early on a
\* revisit: no ancestor is retrieved twice in one resolution, also on a chain
\* in which a reference repeats.
C28_NoAncestorFetchedTwice ==
    pc = "resolved" =>
        \A i, j \in 1..Len(fnOut.calls) :
            (/\ fnOut.calls[i].op = fnOut.calls[j].op
             /\ fnOut.calls[i].arg = fnOut.calls[j].arg) => i = j

-----------------------------------------------------------------------------
(* Claims about the migration run and the cleanup that follows it (Spec).  *)

CallsOf(op) == { i \in 1..Len(calls) : calls[i].op = op }

C2_NoErrorLeavesTheLoop == pc # "aborted"

\* the ids of the items the run recorded as migrated
RecordedIds ==
    { Items[k].id : k \in { n \in ItemNumbers :
        \E i \in 1..Len(migrated_pages) :
            migrated_pages[i].url = get_notion_page_url(Items[n].id) } }

\* C3: every archive request of the cleanup targets an item the migration
\* recorded as migrated.
C3_ArchiveOnlyMigrated ==
    \A i \in 1..Len(archived) : archived[i] \in RecordedIds

\* lines of the log that are "Successfully migrated:" lines
SuccessLines(lines) == { i \in 1..Len(lines) : LitAt(lines[i], 1, SuccessPrefix) }

\* C4: a record is appended to migrated_pages, and its success line written,
\* only in a step in which the page qualified and its upload or its duplicate
\* check returned the id of a file the store holds under the record's name.
C4_RecordOnlyAfterSuccess ==
    [][ ( \/ migrated_pages' # migrated_pages
          \/ SuccessLines(log') # SuccessLines(log) ) =>
            /\ cur'.qualifies
            /\ cur'.outcome \in { "uploaded", "duplicate" }
            /\ cur'.file_id # None
            /\ \E f \in drive'.files : f.id = cur'.file_id /\ f.name = cur'.filename
            /\ migrated_pages' =
                  Append(migrated_pages,
                         [ title |-> Items[cur'.page].title,
                           url |-> get_notion_page_url(Items[cur'.page].id),
                           filename |-> cur'.filename ])
            /\ Cardinality(SuccessLines(log')) = Cardinality(SuccessLines(log)) + 1 ]_vars

\* a record written for a duplicate skip
C4_Witness ==
    /\ cur.outcome = "duplicate"
    /\ migrated_pages # << >>
    /\ migrated_pages[Len(migrated_pages)].filename = cur.filename

-----------------------------------------------------------------------------
(* Claims about folders, repeated runs and failures (Spec).                *)

\* the reference starts a chain of item-refs that ends at no collection: no
\* parent, a parent of another kind, or the workspace above the last ancestor
RECURSIVE EndsWithoutCollection(_, _)
EndsWithoutCollection(ref, fuel) ==
    IF fuel = 0 THEN FALSE
    ELSE CASE ref.type = "page_id" -> EndsWithoutCollection(ParentOf(ref.id), fuel - 1)
           [] ref.type \in { "database_id", "block_id" } -> FALSE
           [] OTHER -> TRUE

FolderCalls == CallsOf("folders.list") \cup CallsOf("folders.create")

\* the folder files go to when no folder was resolved for the page
DefaultFolder == Or(gdrive_folder_id, Root)

\* C11: for a qualifying page whose ancestor chain ends without reaching a
\* collection, the path is empty although the ancestors' titles were
\* collected, no folder is looked up or created, and the file goes to the
\* default destination folder (the configured one, the store root without one).
C11_NoCollectionGoesToDefault ==
    (cur.qualifies /\ EndsWithoutCollection(Items[cur.page].parent,
                                            Cardinality(StoreNodes) + 1)) =>
        /\ cur.full_path = << >>
        /\ cur.target_folder_id = None
        /\ FolderCalls = { }
        /\ (Items[cur.page].parent = PageRef("R") /\ \A i \in CallsOf("pages.retrieve") : calls[i].ok) =>
              cur.parent_pages = << << "Home" >> >>
        /\ (\A i \in 1..Len(calls) : calls[i].ok) => cur.outcome \in { "uploaded", "duplicate" }
        /\ cur.outcome \in { "uploaded", "duplicate" } =>
              \E f \in drive.files : f.id = cur.file_id /\ f.parent = DefaultFolder
        /\ cur.outcome = "uploaded" => CallsOf("files.create") # { }

\* a page below the workspace page 'Home', uploaded without any folder
C11_Witness ==
    /\ cur.qualifies
    /\ Items[cur.page].parent = PageRef("R")
    /\ cur.parent_pages = << << "Home" >> >>
    /\ cur.full_path = << >>
    /\ cur.outcome = "uploaded"

\* the folder calls of the page that failed
FailedFolderCalls == { i \in FolderCalls : ~calls[i].ok }

\* C14: when a folder lookup or creation fails for a segment, no later folder
\* call is made for the page and no folder call is repeated, no folder is
\* resolved, and the page is still transferred, to the default destination
\* folder: it is counted as migrated unless its fetch or its upload fails too.
C14_FolderFailureFallsBack ==
    (cur.qualifies /\ FailedFolderCalls # { }) =>
        /\ \A i \in FailedFolderCalls : \A j \in FolderCalls : j <= i
        /\ \A i, j \in FolderCalls :
              (i # j /\ calls[i].op = calls[j].op) => calls[i].arg # calls[j].arg
        /\ cur.target_folder_id = None
        /\ CallsOf("http.get") # { }
        /\ (\A i \in 1..Len(calls) : i \notin FolderCalls => calls[i].ok) =>
              /\ cur.outcome \in { "uploaded", "duplicate" }
              /\ migrated_pages # << >>
              /\ migrated_pages[Len(migrated_pages)].filename = cur.filename
        /\ cur.outcome \in { "uploaded", "duplicate" } =>
              \E f \in drive.files : f.id = cur.file_id /\ f.parent = DefaultFolder

\* a page below Projects/2024/Q1 whose folder creation failed at a segment
\* and whose file went to the default folder
C14_Witness ==
    /\ cur.qualifies
    /\ Len(cur.full_path) = 3
    /\ FailedFolderCalls # { }
    /\ cur.target_folder_id = None
    /\ cur.outcome = "uploaded"

\* a call of the page just processed failed, other than the listing's
FailedCalls == { i \in 1..Len(calls) : ~calls[i].ok /\ calls[i].op # "pages.list" }

FailedIn(cs, op) == \E i \in 1..Len(cs) : cs[i].op = op /\ ~cs[i].ok
IssuedIn(cs, op) == \E i \in 1..Len(cs) : cs[i].op = op

RecordIds(n) == [ i \in 1..n |-> trasher.migrated_pages[i].page_id ]

\* C17: in live mode the archive requests issued so far are exactly one per
\* record handled, in log order, whatever the outcome of the earlier ones; a
\* failed one is counted in failed_to_trash and the batch goes on to its last
\* record, and at the end total_found = successfully_trashed + failed_to_trash.
C17_OneArchiveRequestPerRecord ==
    (trasher.started /\ ~dry_run) =>
        /\ archived = RecordIds(trasher.pos - 1)
        /\ trasher.stats.failed_to_trash = Len(trasher.failed_pages)
        /\ trasher.stats.successfully_trashed = Len(trasher.trashed_pages)
        /\ trasher.stats.successfully_trashed + trasher.stats.failed_to_trash
              = trasher.pos - 1
        /\ pc = "exit" =>
              /\ trasher.pos = Len(trasher.migrated_pages) + 1
              /\ trasher.stats.total_found = Len(trasher.migrated_pages)
              /\ trasher.stats.total_found =
                    trasher.stats.successfully_trashed + trasher.stats.failed_to_trash

\* a live batch of two records that ended after its first archive request failed
C17_Witness ==
    /\ pc = "exit"
    /\ trasher.started
    /\ ~dry_run
    /\ Len(trasher.migrated_pages) = 2
    /\ Len(archived) = 2
    /\ trasher.failed_pages # << >>
    /\ trasher.failed_pages[1] = trasher.migrated_pages[1]

\* C18: in dry-run mode every parsed record is handled (counted) and no
\* archive request is issued for any of them.
C18_DryRunArchivesNothing ==
    (trasher.started /\ dry_run) =>
        /\ archived = << >>
        /\ trasher.trashed_pages = << >>
        /\ trasher.failed_pages = << >>
        /\ pc = "exit" =>
              /\ trasher.pos = Len(trasher.migrated_pages) + 1
              /\ trasher.stats.successfully_trashed = trasher.stats.total_found

\* a finished dry run over two records
C18_Witness ==
    /\ pc = "exit"
    /\ trasher.started
    /\ dry_run
    /\ trasher.stats.total_found = 2
    /\ trasher.stats.successfully_trashed = 2

\* C19 as stated: the exit code of the cleanup is non-zero exactly when at
\* least one record failed to archive.
C19_ExitCodeIffFailedArchive ==
    pc = "exit" => (trasher.exit_code # 0 <=> trasher.failed_pages # << >>)

\* C19 as amended: the exit code of the cleanup is non-zero exactly when at
\* least one record failed to archive or the cleanup ended with an error
\* before handling the log (its client could not be set up).
C19_ExitCodeIffFailureOrError ==
    pc = "exit" =>
        /\ trasher.exit_code \in { 0, 1 }
        /\ trasher.exit_code # 0 <=>
              (trasher.failed_pages # << >> \/ ~trasher.started)

\* a cleanup that ended with a failed archive request, and so with code 1
C19_Witness ==
    /\ pc = "exit"
    /\ trasher.started
    /\ trasher.failed_pages # << >>
    /\ trasher.exit_code = 1

\* the listings of one page that sits directly in collection D1 and holds a
\* single PDF attachment
OnePdfInCollection ==
    { l \in Listings :
        /\ Len(l) = 1
        /\ Items[l[1]].parent = DbRef("D1")
        /\ Len(Items[l[1]].blocks) = 1
        /\ Items[l[1]].blocks[1].type = "pdf" }

\* C22: a run over one collection holding one item with a single PDF
\* attachment and no nested parents, with no store error, ends with
\* total_pages = 1, single_attachment_pages = 1, successful_migrations = 1,
\* failed_migrations = 0 and exactly one record, that of the item.
C22_EndToEnd ==
    (/\ pc \in { "done", "trash", "exit" }
     /\ source \in OnePdfInCollection
     /\ pages = source
     /\ \A i \in 1..Len(calls) : calls[i].ok) =>
        /\ stats = [ total_pages |-> 1, single_attachment_pages |-> 1,
                     successful_migrations |-> 1, failed_migrations |-> 0 ]
        /\ Len(migrated_pages) = 1
        /\ migrated_pages[1].url = get_notion_page_url(PageId(source[1]))
        /\ cur.full_path = << << "Projects" >> >>

\* such a run, finished, its file uploaded into a store that was empty
C22_Witness ==
    /\ pc = "done"
    /\ source \in OnePdfInCollection
    /\ pages = source
    /\ \A i \in 1..Len(calls) : calls[i].ok
    /\ cur.outcome = "uploaded"
    /\ stats.successful_migrations = 1
    /\ Cardinality(drive.files) = 1

\* the number of calls of op among cs
CountIn(cs, op) == Cardinality({ i \in 1..Len(cs) : cs[i].op = op })

\* C23: when the fetch of a qualifying page's content fails, exactly one
\* fetch was attempted for the page, no upload (nor duplicate query) is
\* issued, the page is counted as failed and no record is written.
C23_FetchFailsFast ==
    [][ (pc = "loop" /\ idx' = idx + 1 /\ FailedIn(calls', "http.get")) =>
          /\ cur'.qualifies
          /\ CountIn(calls', "http.get") = 1
          /\ ~IssuedIn(calls', "files.create")
          /\ ~IssuedIn(calls', "files.list")
          /\ drive'.files = drive.files
          /\ uploaded_files' = uploaded_files
          /\ stats'.failed_migrations = stats.failed_migrations + 1
          /\ stats'.successful_migrations = stats.successful_migrations
          /\ migrated_pages' = migrated_pages ]_vars

\* a page whose fetch failed, after its folder was found or made
C23_Witness ==
    /\ cur.outcome = "failed_download"
    /\ FailedCalls # { }
    /\ \A i \in FailedCalls : calls[i].op = "http.get"
    /\ cur.target_folder_id # None
    /\ stats.failed_migrations = 1
    /\ migrated_pages = << >>

\* C24: every file a loop iteration adds to the store is the one file of
\* the page just processed: its parent is the folder resolved for the page,
\* or the default folder when none was resolved, and its creation and
\* modification times are the page's created_time and last_edited_time.
C24_UploadedFileMetadata ==
    [][ \A f \in drive'.files \ drive.files :
          /\ pc = "loop"
          /\ cur'.outcome = "uploaded"
          /\ drive'.files \ drive.files = { f }
          /\ f.id = cur'.file_id
          /\ f.name = cur'.filename
          /\ f.parent = Or(cur'.target_folder_id, DefaultFolder)
          /\ f.createdTime = Items[cur'.page].created_time
          /\ f.modifiedTime = Items[cur'.page].last_edited_time ]_vars

\* a file uploaded into the default folder, none being resolved for its page,
\* and one uploaded into a folder made for its page
C24_Witness ==
    /\ cur.outcome = "uploaded"
    /\ cur.target_folder_id # None
    /\ \E f \in drive.files :
          /\ f.id = cur.file_id
          /\ f.parent = cur.target_folder_id
          /\ f.createdTime = Items[cur.page].created_time
    /\ \E g \in drive.files : g.parent = DefaultFolder /\ g.id # cur.file_id /\ g.createdTime # << "old" >>

\* the step of the loop body a call belongs to
StepOf(op) ==
    CASE op = "blocks.list" -> 1
      [] op \in { "pages.retrieve", "databases.retrieve", "blocks.retrieve" } -> 2
      [] op \in { "folders.list", "folders.create" } -> 3
      [] op = "http.get" -> 4
      [] op \in { "files.list", "files.create" } -> 5
      [] OTHER -> 0

\* C26: the calls of a page start with the one listing of its blocks, and
\* follow the order fetch blocks, resolve hierarchy, materialize folders,
\* fetch, upload; a record is written only once the upload returned; a page
\* that does not qualify has no call other than the listing of its blocks.
C26_StepOrder ==
    cur.page # 0 =>
        /\ calls # << >>
        /\ calls[1].op = "blocks.list"
        /\ CountIn(calls, "blocks.list") = 1
        /\ \A i, j \in 1..Len(calls) : i < j => StepOf(calls[i].op) <= StepOf(calls[j].op)
        /\ ~cur.qualifies => Len(calls) = 1
        /\ cur.qualifies => cur.classified
        /\ cur.file_id # None => calls[Len(calls)].op \in { "files.list", "files.create" }

\* a qualifying page with calls of all five steps, and a page before it
C26_Witness ==
    /\ cur.qualifies
    /\ idx = 3
    /\ { StepOf(calls[i].op) : i \in 1..Len(calls) } = 1..5
    /\ cur.outcome = "uploaded"

\* C29: once the upload of a page has returned, with a new file, with a
\* duplicate's id or with a failure, no temporary file is left.
C29_NoTemporaryFileLeft ==
    cur.outcome \in { "uploaded", "duplicate", "failed_upload" } => cur.temp_files = { }

\* an upload that failed after the temporary file was written
C29_Witness ==
    /\ cur.outcome = "failed_upload"
    /\ cur.existing = { }
    /\ \E i \in 1..Len(calls) : calls[i].op = "files.create" /\ ~calls[i].ok
    /\ cur.temp_files = { }

\* the relation between the counters at any moment of a run
StatsInRange ==
    /\ stats.successful_migrations + stats.failed_migrations
          <= stats.single_attachment_pages
    /\ stats.single_attachment_pages <= stats.total_pages
    /\ Len(migrated_pages) = stats.successful_migrations

\* C31: no counter ever decreases; successful + failed <= single-attachment
\* pages <= total pages throughout; once the run has returned, successful +
\* failed = single-attachment pages; and the migrator, a fresh one, holds as
\* many records as there are successful migrations.
C31_StatisticsInvariant ==
    /\ [](StatsInRange)
    /\ [](pc \in { "done", "trash", "exit" } =>
             stats.successful_migrations + stats.failed_migrations
                = stats.single_attachment_pages)
    /\ [][ /\ stats'.total_pages >= stats.total_pages
           /\ stats'.single_attachment_pages >= stats.single_attachment_pages
           /\ stats'.successful_migrations >= stats.successful_migrations
           /\ stats'.failed_migrations >= stats.failed_migrations ]_vars

\* a run that returned with one page migrated and one failed
C31_Witness ==
    /\ pc = "done"
    /\ stats.total_pages = 2
    /\ stats.successful_migrations = 1
    /\ stats.failed_migrations = 1
    /\ Len(migrated_pages) = 1

\* the store holds no file from before the run
OnlyOwnFiles == \A f \in drive.files : f.createdTime # << "old" >>

\* C32: on a store that held no file before the run, a page recorded as
\* migrated has a file with its own content, under its final name, in its
\* destination folder, also when an earlier page of the run went to the same
\* folder under the same name.
C32_OwnContentStored ==
    (cur.outcome \in { "uploaded", "duplicate" } /\ OnlyOwnFiles) =>
        \E f \in drive.files :
            /\ f.content = cur.page
            /\ f.name = cur.filename
            /\ f.parent = Or(cur.target_folder_id, DefaultFolder)

\* C33: the files the tool created are one per destination folder and final
\* name, and a page whose duplicate query failed has no upload issued.
C33_OneFilePerFolderAndName ==
    /\ \A f, g \in drive.files :
          ( /\ f.createdTime # << "old" >>
            /\ g.createdTime # << "old" >>
            /\ f.parent = g.parent
            /\ f.name = g.name ) => f.id = g.id
    /\ FailedIn(calls, "files.list") => ~IssuedIn(calls, "files.create")

\* C34: the lines the run wrote parse to one record each, and the record of
\* a line carries the id of the page the line was written for, whatever the
\* page's title.
C34_WrittenLineParsesToItsItem ==
    trasher.started =>
        /\ Len(trasher.migrated_pages) = Len(migrated_pages)
        /\ \A i \in 1..Len(migrated_pages) : \A n \in ItemNumbers :
              migrated_pages[i].url = get_notion_page_url(Items[n].id) =>
                  trasher.migrated_pages[i].page_id = Items[n].id

\* C35: when a request of the listing of a page's blocks fails, whatever
\* number of blocks had arrived before, the page is classified on no block
\* at all: it does not qualify, its only call is the failed listing, nothing
\* is fetched, uploaded or recorded for it, the statistics are left as they
\* were, and the loop goes on.
C35_FailedListingClassifiesNothing ==
    [][ (pc = "loop" /\ idx' = idx + 1 /\ ~cur'.blocks_ok) =>
          /\ cur'.classified
          /\ ~cur'.qualifies
          /\ ~cur'.raised
          /\ cur'.outcome = "skipped"
          /\ Len(calls') = 1
          /\ ~IssuedIn(calls', "http.get")
          /\ ~IssuedIn(calls', "files.create")
          /\ stats' = stats
          /\ migrated_pages' = migrated_pages
          /\ drive' = drive
          /\ uploaded_files' = uploaded_files
          /\ pc' = "loop" ]_vars

\* the listing failed after a first response had delivered an attachment
\* block that, alone, would make the page a qualifying one
C35_Witness ==
    /\ ~cur.blocks_ok
    /\ cur.received >= 1
    /\ LET partial == is_single_attachment_page(
                          SubSeq(Items[cur.page].blocks, 1, cur.received))
       IN  ~partial.raised /\ partial.is_single
    /\ cur.outcome = "skipped"
    /\ stats.single_attachment_pages = 0
    /\ stats.failed_migrations = 0

\* C36: when a request of the listing of the pages fails, whatever number of
\* pages had arrived before, the run has no page to process: it counts zero
\* pages seen, ends normally without entering the loop, with all statistics
\* at zero, and stores, records and logs nothing for any page.
C36_FailedListingProcessesNothing ==
    [][ (pc = "start" /\ FailedIn(calls', "pages.list")) =>
          /\ pages' = << >>
          /\ stats' = NoStats
          /\ pc' = "done"
          /\ migrated_pages' = migrated_pages
          /\ drive' = drive
          /\ uploaded_files' = uploaded_files
          /\ log' = log
          /\ cur' = cur ]_vars

\* a listing of two pages failed after the first page had arrived, and the
\* run is over with nothing counted
C36_Witness ==
    /\ pc = "done"
    /\ Len(source) = 2
    /\ calls = << Call("pages.list", "1", FALSE) >>
    /\ stats = NoStats
    /\ migrated_pages = << >>

-----------------------------------------------------------------------------
(* Claims about the parsing of a log file (SpecLog).                       *)

\* the leading run of hex digits of an embedded identifier
HexRun(e) == SubSeq(e, 1, HexRunEnd(e, 1))

\* 32 characters in the dashed form 8-4-4-4-12
Dashed(c) ==
    [ i \in 1..36 |->
        IF i \in {9, 14, 19, 24} THEN "-"
        ELSE c[i - Cardinality({ j \in {9, 14, 19, 24} : j < i })] ]

WellFormed(e) == Len(e) = IdLength /\ \A i \in 1..Len(e) : e[i] \in HexChars

\* the record of the line written from d, its id built from the 32 characters c
RecordOf(d, c) ==
    [ title |-> d.title, filename |-> d.filename,
      url |-> UrlPrefix \o HexRun(d.id), page_id |-> Dashed(c) ]

\* C20 as stated: the records parsed are those of the lines whose embedded
\* identifier is well formed (32 hex characters), in order, each with that
\* identifier; a line with any other identifier yields no record and no
\* archive request.
C20_MalformedIdYieldsNoRecord ==
    trasher.started =>
        LET good == SelectSeq(fnIn, LAMBDA d : WellFormed(d.id))
        IN  /\ trasher.migrated_pages =
                  [ i \in 1..Len(good) |-> RecordOf(good[i], good[i].id) ]
            /\ \A i \in 1..Len(archived) :
                  \E j \in 1..Len(good) : archived[i] = Dashed(good[j].id)

\* the last 32 characters of the hex run of an embedded identifier
LastChars(e) == SubSeq(HexRun(e), Len(HexRun(e)) - IdLength + 1, Len(HexRun(e)))

\* C20 as amended: a line whose embedded identifier has fewer than 32 leading
\* hex characters (too short, or cut short by a character that is no
\* lower-case hex digit) yields no record and no archive request, and every
\* other line still yields its record, in order; an identifier of more than
\* 32 hex characters is no parse failure: its record's id is built from its
\* last 32 characters.
C20_ShortIdYieldsNoRecord ==
    trasher.started =>
        LET kept == SelectSeq(fnIn, LAMBDA d : Len(HexRun(d.id)) >= IdLength)
            ids == [ i \in 1..Len(kept) |-> Dashed(LastChars(kept[i].id)) ]
        IN  /\ trasher.migrated_pages =
                  [ i \in 1..Len(kept) |-> RecordOf(kept[i], LastChars(kept[i].id)) ]
            /\ (pc = "exit" /\ ~dry_run) => archived = ids
            /\ dry_run => archived = << >>

\* a live cleanup of two lines, the first with an identifier cut short, that
\* archived the page of the second line and nothing else
C20_Witness ==
    /\ pc = "exit"
    /\ trasher.started
    /\ ~dry_run
    /\ Len(fnIn) = 2
    /\ Len(HexRun(fnIn[1].id)) < IdLength
    /\ WellFormed(fnIn[2].id)
    /\ archived = << Dashed(fnIn[2].id) >>

\* abcdef01-2345-6789-abcd-ef0123456789
ExampleDashed ==
    << "a", "b", "c", "d", "e", "f", "0", "1", "-", "2", "3", "4", "5", "-",
       "6", "7", "8", "9", "-", "a", "b", "c", "d", "-",
       "e", "f", "0", "1", "2", "3", "4", "5", "6", "7", "8", "9" >>

\* C21: a log of exactly one well-formed summary line parses to exactly one
\* record, with the line's title, filename and URL, whose id is the 32 hex
\* characters of the URL regrouped 8-4-4-4-12 with dashes;
\* abcdef0123456789abcdef0123456789 becomes abcdef01-2345-6789-abcd-ef0123456789.
C21_OneLineOneRecord ==
    (trasher.started /\ Len(fnIn) = 1 /\ WellFormed(fnIn[1].id)) =>
        /\ Len(trasher.migrated_pages) = 1
        /\ trasher.migrated_pages[1].title = fnIn[1].title
        /\ trasher.migrated_pages[1].filename = fnIn[1].filename
        /\ trasher.migrated_pages[1].url = UrlPrefix \o fnIn[1].id
        /\ LET page_id == trasher.migrated_pages[1].page_id
           IN  /\ Len(page_id) = 36
               /\ \A i \in {9, 14, 19, 24} : page_id[i] = "-"
               /\ SelectSeq(page_id, LAMBDA ch : ch # "-") = fnIn[1].id
               /\ fnIn[1].id = ExampleId => page_id = ExampleDashed

\* the log of the one line with abcdef0123456789abcdef0123456789, parsed
C21_Witness ==
    /\ trasher.started
    /\ Len(fnIn) = 1
    /\ fnIn[1].id = ExampleId
    /\ Len(trasher.migrated_pages) = 1
    /\ trasher.migrated_pages[1].page_id = ExampleDashed

-----------------------------------------------------------------------------
(* Claims about path materialization (SpecFolders).                        *)

\* the store calls of the run so far, in order
RECURSIVE CallsUpTo(_)
CallsUpTo(n) == IF n = 0 THEN << >> ELSE CallsUpTo(n - 1) \o fnOut[n].calls

\* the folder-creation requests of the run so far, in order
CreationRequests ==
    SelectSeq(CallsUpTo(Len(fnOut)), LAMBDA c : c.op = "folders.create")

\* C12 as stated: whatever fails, no two creation requests of one run carry
\* the same (parent folder id, sanitized name) key.
C12_OneCreationRequestPerKey ==
    pc = "folders" =>
        \A i, j \in 1..Len(CreationRequests) :
            i # j => CreationRequests[i].arg # CreationRequests[j].arg

\* C12 as amended: a creation request for a key is issued again only when
\* every earlier creation request for that key failed; so at most one
\* creation request per key succeeds, and without failures at most one is issued.
C12_OneCreationPerKeyUnlessFailed ==
    pc = "folders" =>
        \A i, j \in 1..Len(CreationRequests) :
            (i < j /\ CreationRequests[i].arg = CreationRequests[j].arg) =>
                ~CreationRequests[i].ok

\* a failed creation request, repeated by the next call and then successful
C12_Witness ==
    /\ pc = "folders"
    /\ Len(CreationRequests) = 2
    /\ CreationRequests[1].arg = CreationRequests[2].arg
    /\ ~CreationRequests[1].ok
    /\ CreationRequests[2].ok

\* the calls of fnOut[n] all succeeded
NoStoreError(n) == \A k \in 1..Len(fnOut[n].calls) : fnOut[n].calls[k].ok

CreationsOf(n) == SelectSeq(fnOut[n].calls, LAMBDA c : c.op = "folders.create")

\* C13: two calls with the same path (the root is the run's) and no store
\* error return the same folder id, the second without any store call; the
\* first creates each segment of the path at most once.
C13_EnsurePathIdempotent ==
    pc = "folders" =>
        \A i, j \in 1..Len(fnOut) :
            (/\ i < j
             /\ fnOut[i].full_path = fnOut[j].full_path
             /\ NoStoreError(i) /\ NoStoreError(j)) =>
                /\ fnOut[j].id = fnOut[i].id
                /\ fnOut[j].calls = << >>
                /\ fnOut[i].full_path # << >> => fnOut[i].id \notin { None, Root, ConfiguredFolder }
                /\ Len(CreationsOf(i)) <= Len(fnOut[i].full_path)
                /\ \A k, l \in 1..Len(CreationsOf(i)) :
                      k # l => CreationsOf(i)[k].arg # CreationsOf(i)[l].arg

\* Projects/2024/2024 created by the first call, answered again by the second
C13_Witness ==
    /\ pc = "folders"
    /\ Len(fnOut) = 2
    /\ fnOut[1].full_path = << << "Projects" >>, << "2024" >>, << "2024" >> >>
    /\ fnOut[2].full_path = fnOut[1].full_path
    /\ Len(CreationsOf(1)) = 3
    /\ fnOut[2].calls = << >>
    /\ fnOut[2].id = fnOut[1].id

-----------------------------------------------------------------------------
(* Claims about a second run (SpecRerun).                                  *)

\* the positions of the source whose page is a single-attachment page
Qualifying == { i \in 1..Len(source) : is_single_attachment_page(Items[source[i]].blocks).is_single }

\* the first run listed the whole source and every transfer in it succeeded
FirstRunSucceeded ==
    /\ first_run.ran
    /\ first_run.stats.total_pages = Len(source)
    /\ first_run.stats.failed_migrations = 0
    /\ first_run.stats.successful_migrations = Cardinality(Qualifying)
    /\ Len(first_run.migrated_pages) = Cardinality(Qualifying)

\* C15: in a second run after a first run in which every transfer succeeded,
\* a qualifying page whose calls all succeed causes no upload and no folder
\* creation, and is recorded again as migrated, as a duplicate.
C15_SecondRunUploadsNothing ==
    (/\ FirstRunSucceeded
     /\ cur.qualifies
     /\ \A i \in 1..Len(calls) : calls[i].ok) =>
        /\ CallsOf("files.create") = { }
        /\ CallsOf("folders.create") = { }
        /\ cur.outcome = "duplicate"
        /\ migrated_pages # << >>
        /\ migrated_pages[Len(migrated_pages)].filename = cur.filename

-----------------------------------------------------------------------------
(* Claims about a second call on the same migrator (SpecReinvoke).         *)

\* C30: a second call of migrate_single_attachment_pages on the same
\* migrator starts with an empty folder cache and an empty list of records:
\* nothing of the first call is left in either.
C30_SecondCallStartsEmpty ==
    (first_run.ran /\ pc = "start") =>
        /\ database_folder_cache = << >>
        /\ migrated_pages = << >>

-----------------------------------------------------------------------------
(* Claims about folders over several runs (SpecFolderRuns).                *)

\* the name a path segment is looked up and created under
SafeName(segment) ==
    IF Sanitize(segment, NameChars) = << >> THEN << "Untitled", "_", "Folder" >>
    ELSE Sanitize(segment, NameChars)

\* the non-trashed folders of that name under that parent
FoldersAt(parent, name) == { f \in drive.folders : f.parent = parent /\ f.name = name }

\* the folder a path leads to in the store, from folder id `from` on
RECURSIVE FolderOfPath(_, _)
FolderOfPath(full_path, from) ==
    IF full_path = << >> THEN from
    ELSE IF FoldersAt(from, SafeName(Head(full_path))) = { } THEN None
    ELSE FolderOfPath(Tail(full_path),
                      (CHOOSE f \in FoldersAt(from, SafeName(Head(full_path))) : TRUE).id)

\* C27: over any sequence of runs without a store error, the store holds at
\* most one non-trashed folder per (parent, name): a folder is created only
\* when none of that name exists under that parent; every call returns the
\* id of the store's folder at its path, and every cache entry holds the id
\* of the store's folder of its key.
C27_LookupBeforeCreate ==
    (\A n \in 1..Len(fnOut) : NoStoreError(n)) =>
        /\ \A f, g \in drive.folders : (f.parent = g.parent /\ f.name = g.name) => f = g
        /\ \A n \in 1..Len(fnOut) :
              fnOut[n].full_path # << >> =>
                  /\ fnOut[n].id # None
                  /\ fnOut[n].id = FolderOfPath(fnOut[n].full_path, DefaultFolder)
        /\ \A key \in DOMAIN database_folder_cache :
              FoldersAt(key[1], key[2]) =
                  { Folder(database_folder_cache[key], key[2], key[1]) }

\* a second run whose call found, by a query and without creating it, the
\* folder the first run had created
C27_Witness ==
    /\ Len(fnOut) = 2
    /\ fnOut[1].full_path = fnOut[2].full_path
    /\ \E i \in 1..Len(fnOut[1].calls) : fnOut[1].calls[i].op = "folders.create"
    /\ fnOut[2].calls # << >>
    /\ \A i \in 1..Len(fnOut[2].calls) :
          fnOut[2].calls[i].op = "folders.list" /\ fnOut[2].calls[i].ok
    /\ fnOut[2].id = fnOut[1].id
    /\ fnOut[1].id # None

-----------------------------------------------------------------------------
(* Claims about the derived file name (SpecNames).                         *)

\* the base name: the caption, else the URL's last path segment without its
\* query string, else the placeholder with the block id
BaseName(block) ==
    IF Strip(block.att.caption) # << >> THEN block.att.caption
    ELSE IF Strip(Basename(BeforeQuery(block.att.url))) # << >>
    THEN Basename(BeforeQuery(block.att.url))
    ELSE << "attachment", "_", ToString(block.id) >>

\* the extension of the kind: .png for an image, .pdf for a pdf, none for a file
KindExtension(block) ==
    IF block.type = "image" THEN << ".", "png" >>
    ELSE IF block.type = "pdf" THEN << ".", "pdf" >> ELSE << >>

\* the base name's extension, or the kind's when it has none
Extension(block) ==
    IF Suffix(BaseName(block)) # << >> THEN Suffix(BaseName(block))
    ELSE KindExtension(block)

\* a name with the characters a file name may not hold removed
Whitelisted(name) ==
    Strip(SelectSeq(name, LAMBDA ch : ch \notin (Punct \ { " ", "-", "_", "." })))

\* the image of the example: no caption, URL .../diagram.png?x=1
ExampleBlock == MkBlock(7, Kind("image", "att", [ ExternalImage EXCEPT !.src = "file" ]))

\* C25 as stated: the name is the base name (with the kind's extension when
\* it has none), unless the title is non-empty: then it is the title followed
\* by the extension; either way sanitized as a file name.
C25_TitleOverridesBaseName ==
    pc = "named" =>
        fnOut.filename =
            Whitelisted(IF Strip(fnIn.page_title) # << >>
                        THEN fnIn.page_title \o Extension(fnIn.block)
                        ELSE BaseName(fnIn.block)
                               \o (IF Suffix(BaseName(fnIn.block)) = << >>
                                   THEN KindExtension(fnIn.block) ELSE << >>))

\* the title with only its letters, digits, blanks, hyphens and underscores
SafeTitle(title) ==
    Strip(SelectSeq(title, LAMBDA ch : ch \notin (Punct \ { " ", "-", "_" })))

\* C25 as amended: the title overrides the base name only through what is
\* left of it once every character other than a letter, digit, blank, hyphen
\* or underscore is removed (dots included), and only when something is left;
\* it is followed by the base name's extension, or the kind's when the base
\* name has none.  Otherwise the name is the base name, with the kind's
\* extension when it has none.  No caption, URL .../diagram.png?x=1, kind
\* image and title 'My Notes' give 'My Notes.png'.
C25_SafeTitleOverridesBaseName ==
    pc = "named" =>
        /\ fnOut.filename =
              Whitelisted(IF SafeTitle(fnIn.page_title) # << >>
                          THEN SafeTitle(fnIn.page_title) \o Extension(fnIn.block)
                          ELSE BaseName(fnIn.block)
                                 \o (IF Suffix(BaseName(fnIn.block)) = << >>
                                     THEN KindExtension(fnIn.block) ELSE << >>))
        /\ (fnIn.block = ExampleBlock /\ fnIn.page_title = << "My", " ", "Notes" >>) =>
              fnOut.filename = << "My", " ", "Notes", ".", "png" >>

\* the example, derived
C25_Witness ==
    /\ pc = "named"
    /\ fnIn.block = ExampleBlock
    /\ fnIn.page_title = << "My", " ", "Notes" >>
    /\ fnOut.filename = << "My", " ", "Notes", ".", "png" >>

====
